---- MODULE Spec2Model ----
(***************************************************************************)
(* Verification model of the VR video player core (rust-vr-app):           *)
(*   - the orientation tracker   (src/src/sensors.rs, SensorInput)         *)
(*   - the decoder pipeline      (src/src/video_ndk.rs, NdkVideoDecoder)   *)
(* Every critical section of the code (the body of one Mutex guard) is one *)
(* atomic action; the steps of a worker thread between two accesses to     *)
(* shared state are folded into the action that precedes them.             *)
(***************************************************************************)
EXTENDS Integers, Sequences, FiniteSets, TLC

(***************************************************************************)
(* Bounds of the model.                                                    *)
(***************************************************************************)
\* number of SensorInput objects constructed in one process (resume count)
MaxTrackers == 2
\* number of sessions started on the decoder (start_from_fd calls)
MaxSessions == 2
\* number of times the axis remap is applied to one payload
MaxRemaps == 4
\* number of times resize() replaces the offscreen target
MaxResizes == 2
\* frames marked dirty and not returned by get_frame() up to which the worker
\* overwrites a frame that was not taken, and frames one test-pattern session
\* draws
MaxFrames == 2
\* compressed samples in a media file; sample i has presentation time i
NumSamples == 2
\* input buffers of the codec (samples queued and not yet output)
CodecCap == 1
\* largest reading of start_time.elapsed() in the test-pattern generator
MaxElapsed == 1
\* gyroscope events one sensor thread reads
MaxGyroEvents == 4

\* tracks of a container the decode routine looks through
MaxTracks == 2

\* descriptors the host delivers
MaxDeliveries == 3

(***************************************************************************)
(* Quaternions (glam::Quat) as <<x, y, z, w>> over the integers.  The      *)
(* sensor samples of the model are axis-aligned, so every product stays in *)
(* the unit quaternion group {+-1, +-i, +-j, +-k} and is exact.            *)
(***************************************************************************)
IDENTITY == <<0, 0, 0, 1>>

NoQuat == <<0, 0, 0, 0>>

Dot(a, b) == a[1] * b[1] + a[2] * b[2] + a[3] * b[3] + a[4] * b[4]

\* f32::sqrt on the perfect squares the samples produce
ISqrt(n) == CHOOSE r \in 0..n : r * r = n

\* Quat::normalize: q / sqrt(q . q)
Normalize(q) == [i \in 1..4 |-> q[i] \div ISqrt(Dot(q, q))]

\* Quat * Quat (Hamilton product, glam mul_quat)
QMul(a, b) ==
    << a[4] * b[1] + a[1] * b[4] + a[2] * b[3] - a[3] * b[2],
       a[4] * b[2] - a[1] * b[3] + a[2] * b[4] + a[3] * b[1],
       a[4] * b[3] + a[1] * b[2] - a[2] * b[1] + a[3] * b[4],
       a[4] * b[4] - a[1] * b[1] - a[2] * b[2] - a[3] * b[3] >>

\* Quat::inverse of a unit quaternion: the conjugate
QInverse(q) == << -q[1], -q[2], -q[3], q[4] >>

\* q and -q are the same rotation
IsIdentityRotation(q) == q = IDENTITY \/ q = << 0, 0, 0, -1 >>

\* payloads (data[0..3]) the rotation-vector sensor delivers in the model
SensorSamples == { <<0, 0, 0, 1>>, <<1, 0, 0, 0>>, <<0, 2, 0, 0>> }

\* the axis remap of the rotation-vector path: from_xyzw(-y, x, z, w)
Remap_Swap(d) == << d[2], d[1], d[3], d[4] >>
Remap(d) == << -d[2], d[1], d[3], d[4] >>

\* from_xyzw(-y, x, z, w).normalize()
AxisRemap(d) == Normalize(Remap(d))

(***************************************************************************)
(* State.                                                                  *)
(***************************************************************************)
VARIABLES
    \* ---- orientation tracker
    SAVED_REFERENCE,  \* the process-wide OnceLock<Mutex<Quat>>: <<>> (unset) or <<q>>
    sensors,          \* VRApp.sensors: 0 (None) or the index of the live SensorInput
    created,          \* number of SensorInput objects constructed so far
    state,            \* state[i]: the Arc<Mutex<SharedState>> of SensorInput i
    sensor_pc,        \* sensor_pc[i]: where the sensor thread of SensorInput i is
    orientation_ret,  \* value returned by the get_orientation() that just ran, or NoQuat
    \* ---- history of the tracker
    lastTare,         \* the reference stored by the most recent recenter(), IDENTITY before
    tareFresh,        \* recenter() ran on the live tracker and no sample was written since
    sampled           \* the sensor thread of the live tracker has written a sample

trackerVars == << SAVED_REFERENCE, sensors, created, state, sensor_pc,
                  orientation_ret, lastTare, tareFresh, sampled >>

VARIABLES
    \* ---- NdkVideoDecoder
    running,          \* Arc<AtomicBool>
    decoder_thread,   \* Option<JoinHandle>: TRUE when Some
    playback_state,   \* Arc<Mutex<PlaybackState>>
    frame_buffer,     \* Arc<Mutex<FrameBuffer>>
    main_pc,          \* "idle", or the call in which the caller waits in handle.join()
    start_arg,        \* the fd (or path) of the start_from_fd() (or start())
                      \* that waits in stop()
    sessions,         \* number of sessions started so far
    worker,           \* the decode thread: its place and its local variables
    position_ret,     \* <<p>>: the get_position() that just ran returned p; or NoPos
    frame_ret,        \* value returned by the get_frame() that just ran
    \* ---- history of the decoder
    seekLog,          \* the seek() calls made since the last consumed request (the
                      \* last two of them) and the extractor seek that consumed
                      \* them, in order
    framesAhead       \* frames the worker marked dirty minus frames get_frame() returned

decoderVars == << running, decoder_thread, playback_state, frame_buffer, main_pc,
                  start_arg, sessions, worker, position_ret, frame_ret,
                  seekLog, framesAhead >>

VARIABLES
    \* ---- frame pacing of the decode loop (locals of run_mediacodec_decode_fd)
    pacing,           \* frames_for_estimation, previous_pts, accumulated_delta,
                      \* samples_count, target_interval_ms
    behind_ms,        \* Instant::now() - next_frame_target, in ms
    slept_ms,         \* the thread::sleep of the frame paced last, in ms (0: none)
    \* ---- history of the pacing
    stepsSeen         \* stepsSeen[d]: warm-up frames whose timestamp was the
                      \* previous frame's plus d

pacingVars == << pacing, behind_ms, slept_ms, stepsSeen >>

VARIABLES
    \* ---- Renderer
    vr_mode,                \* Renderer.vr_mode
    size,                   \* Renderer.size and config.width/height: <<w, h>>
    offscreen,              \* offscreen_texture and its view: id and dimensions
    distortion_bind_group,  \* its id and the id of the view in binding 0
    distortion_buffer,      \* the DistortionUniforms in the GPU buffer
    frame,                  \* what the render() that ran last recorded
    video,                  \* video_texture_y/uv, video_width/height, has_video
    redraw_pc,              \* "idle", or "request": render() returned to the
                            \* RedrawRequested handler
    redraw_requested,       \* window.request_redraw() was called and the event
                            \* was not delivered yet
    \* ---- history of the renderer
    last_call,              \* the operation on the renderer that ran last
    repeated,               \* the operation that ran before it was the same one
    prev_vr_mode,           \* vr_mode before that operation
    lastUniforms            \* distortion_buffer before the write that ran last

rendererVars == << vr_mode, size, offscreen, distortion_bind_group,
                   distortion_buffer, frame, video, redraw_pc, redraw_requested,
                   last_call, repeated, prev_vr_mode, lastUniforms >>

VARIABLES
    \* ---- the axis remap applied again and again to one sensor payload
    remap_in,         \* the payload data[0..3]
    remap_out,        \* the remap applied remap_n times to it
    remap_n

remapVars == << remap_in, remap_out, remap_n >>

VARIABLES
    \* ---- the Mutex around the shared state of each worker
    poisoned,         \* poisoned.state, .playback_state, .frame_buffer: a thread
                      \* panicked while it held the guard
    duration_ret,     \* <<d>>: the get_duration() that just ran returned d; or <<>>
    paused_ret        \* <<b>>: the is_paused() that just ran returned b; or <<>>

lockVars == << poisoned, duration_ret, paused_ret >>

VARIABLES
    \* ---- the RedrawRequested handler of VRApp
    handler           \* where the handler is, the flags of ui.params, the
                      \* GamepadActions of this frame, gyro_enabled, the
                      \* orientation it read; and the history of this frame

handlerVars == << handler >>

VARIABLES
    \* ---- the gyroscope integration of each sensor thread (locals of sensor_loop)
    gyro              \* gyro[i]: gyro_pitch, gyro_yaw, gyro_roll, last_ts, the
                      \* ASensorEvent read last, and the number of events read

gyroVars == << gyro >>

VARIABLES
    \* ---- who holds which Mutex, statement by statement
    locking           \* locking.pc[t]: the statement thread t is at (inside, for
                      \* a call); locking.held[t]: the guards thread t holds

lockingVars == << locking >>

VARIABLES
    \* ---- the camera uniforms of one render(): queue, encoder, GPU buffer
    camera            \* camera.pc: the statement render() is at; the arguments
                      \* of the call; the writes staged in the queue; the eye
                      \* passes recorded in the encoder; the camera buffer on
                      \* the GPU; and what each executed pass read from it

cameraVars == << camera >>

VARIABLES
    \* ---- the native handles of one run of the hardware decode routine
    native            \* native.pc: the statement the routine is at; the variant
                      \* (from a descriptor or from a path); the tracks of the
                      \* container; the handles acquired; how often each was
                      \* released

nativeVars == << native >>

VARIABLES
    \* ---- the gamepad
    gamepad           \* GAMEPAD_STATE, PREV_STATE, the GamepadActions of the last
                      \* poll_actions(), and the snapshots of the last two polls

gamepadVars == << gamepad >>

VARIABLES
    \* ---- the video descriptor handed over by the host
    pending           \* PENDING_VIDEO_FD, the delivery that stored it, what
                      \* get_pending_fd() returned last and every Some it returned

pendingVars == << pending >>

\* what the host delivers to the orchestrator
hostVars == << nativeVars, gamepadVars, pendingVars >>

\* the components added around the tracker, the decoder and the renderer
peripheralVars == << gyroVars, lockingVars, cameraVars, hostVars >>

\* everything but what the host delivers
coreVars == << trackerVars, decoderVars, pacingVars, rendererVars, remapVars,
              lockVars, handlerVars, gyroVars, lockingVars, cameraVars >>

vars == << trackerVars, decoderVars, pacingVars, rendererVars, remapVars, lockVars,
           handlerVars,
       peripheralVars >>

\* what an action of one component leaves alone
outsideTracker ==
    << decoderVars, pacingVars, rendererVars, remapVars, lockVars, handlerVars,
       peripheralVars >>
outsideDecoder ==
    << trackerVars, pacingVars, rendererVars, remapVars, lockVars, handlerVars,
       peripheralVars >>
outsidePacing ==
    << trackerVars, decoderVars, rendererVars, remapVars, lockVars, handlerVars,
       peripheralVars >>
outsideRenderer ==
    << trackerVars, decoderVars, pacingVars, remapVars, lockVars, handlerVars,
       peripheralVars >>
outsideRemap ==
    << trackerVars, decoderVars, pacingVars, rendererVars, lockVars, handlerVars,
       peripheralVars >>

\* no lock is poisoned
NoPoison == [state |-> FALSE, playback_state |-> FALSE, frame_buffer |-> FALSE]

InitLock ==
    /\ poisoned = NoPoison
    /\ duration_ret = <<>>
    /\ paused_ret = <<>>

Trackers == 1..MaxTrackers

\* the SharedState of a SensorInput that does not exist (not yet built, or freed)
NoState == [orientation |-> NoQuat, reference |-> NoQuat, running |-> FALSE]

(***************************************************************************)
(* Orientation tracker: SensorInput.                                       *)
(***************************************************************************)

\* SAVED_REFERENCE.get_or_init(|| Mutex::new(Quat::IDENTITY)).lock().map(|g| *g)
LoadSavedReference ==
    IF SAVED_REFERENCE = <<>> THEN IDENTITY ELSE SAVED_REFERENCE[1]

\* mutant: the new tracker ignores the persisted reference
NewSharedState_NoLoad ==
    [orientation |-> IDENTITY, reference |-> IDENTITY, running |-> TRUE]

\* the SharedState SensorInput::new builds
NewSharedState ==
    [orientation |-> IDENTITY, reference |-> LoadSavedReference, running |-> TRUE]

\* SensorInput::new, called by VRApp::resumed when self.sensors is None
SensorInput_new ==
    /\ UNCHANGED outsideTracker
    /\ sensors = 0
    /\ created < MaxTrackers
    /\ created' = created + 1
    /\ sensors' = created + 1
    /\ SAVED_REFERENCE' = << LoadSavedReference >>
    /\ state' = [state EXCEPT ![created + 1] = NewSharedState]
    /\ sensor_pc' = [sensor_pc EXCEPT ![created + 1] = "start"]
    /\ orientation_ret' = NoQuat
    /\ tareFresh' = FALSE
    /\ sampled' = FALSE
    /\ UNCHANGED lastTare

\* Drop for SensorInput (VRApp::suspended sets self.sensors = None): the stop
\* flag is set, the thread is not joined.  The shared state is freed with its
\* last owner.
SensorInput_drop ==
    /\ UNCHANGED outsideTracker
    /\ sensors # 0
    /\ sensors' = 0
    /\ state' = [state EXCEPT ![sensors] =
                    IF sensor_pc[sensors] = "done" THEN NoState
                    ELSE [@ EXCEPT !.running = FALSE]]
    /\ orientation_ret' = NoQuat
    /\ tareFresh' = FALSE
    /\ sampled' = FALSE
    /\ UNCHANGED << SAVED_REFERENCE, created, sensor_pc, lastTare >>

\* sensor_loop, steps 1-5: looper, manager, sensor, queue, enable.  Any of them
\* can fail, and then the thread returns without entering the loop.
sensor_setup(i) ==
    /\ UNCHANGED outsideTracker
    /\ sensor_pc[i] = "start"
    /\ \E ok \in BOOLEAN :
          sensor_pc' = [sensor_pc EXCEPT ![i] = IF ok THEN "loop" ELSE "done"]
    /\ state' = [state EXCEPT ![i] =
                    IF sensors # i /\ sensor_pc'[i] = "done" THEN NoState ELSE @]
    /\ orientation_ret' = NoQuat
    /\ UNCHANGED << SAVED_REFERENCE, sensors, created, lastTare, tareFresh, sampled >>

\* while state.lock().unwrap().running { ... } and, after the loop, the cleanup
sensor_check_running(i) ==
    /\ UNCHANGED outsideTracker
    /\ sensor_pc[i] = "loop"
    /\ sensor_pc' = [sensor_pc EXCEPT ![i] =
                        IF state[i].running THEN "poll" ELSE "done"]
    /\ state' = [state EXCEPT ![i] =
                    IF sensors # i /\ ~state[i].running THEN NoState ELSE @]
    /\ orientation_ret' = NoQuat
    /\ UNCHANGED << SAVED_REFERENCE, sensors, created, lastTare, tareFresh, sampled >>

\* ALooper_pollAll returned ALOOPER_POLL_TIMEOUT or ALOOPER_POLL_ERROR, or
\* getEvents returned no event: continue
sensor_poll_nothing(i) ==
    /\ UNCHANGED outsideTracker
    /\ sensor_pc[i] = "poll"
    /\ sensor_pc' = [sensor_pc EXCEPT ![i] = "loop"]
    /\ orientation_ret' = NoQuat
    /\ UNCHANGED << SAVED_REFERENCE, sensors, created, state, lastTare, tareFresh,
                    sampled >>

\* mutant: the write of a sample also moves the tare baseline
StoreOrientation_Tared(s, new_quat) ==
    [s EXCEPT !.orientation = new_quat, !.reference = new_quat]

\* the orientation the lock-guarded write of sensor_loop stores
StoreOrientation(s, new_quat) == [s EXCEPT !.orientation = new_quat]

\* poll_id == ident: one event is read, remapped, and written under the lock
sensor_poll_event(i) ==
    /\ UNCHANGED outsideTracker
    /\ sensor_pc[i] = "poll"
    /\ \E d \in SensorSamples :
          state' = [state EXCEPT ![i] = StoreOrientation(@, AxisRemap(d))]
    /\ sensor_pc' = [sensor_pc EXCEPT ![i] = "loop"]
    /\ tareFresh' = IF sensors = i THEN FALSE ELSE tareFresh
    /\ sampled' = IF sensors = i THEN TRUE ELSE sampled
    /\ orientation_ret' = NoQuat
    /\ UNCHANGED << SAVED_REFERENCE, sensors, created, lastTare >>

\* mutant: the product taken in the other order
GetOrientation_Swapped(s) == QMul(s.orientation, QInverse(s.reference))

\* the value SensorInput::get_orientation computes under the lock
GetOrientation(s) == QMul(QInverse(s.reference), s.orientation)

\* SensorInput::get_orientation: the product under the lock, IDENTITY when
\* lock() returns a poison error
get_orientation ==
    /\ UNCHANGED outsideTracker
    /\ sensors # 0
    /\ orientation_ret' = IF poisoned.state THEN IDENTITY
                          ELSE GetOrientation(state[sensors])
    /\ UNCHANGED << SAVED_REFERENCE, sensors, created, state, sensor_pc,
                    lastTare, tareFresh, sampled >>

\* mutant: the tare stores the exposed orientation instead of the raw one
Recentered_Exposed(s) ==
    [s EXCEPT !.reference = QMul(QInverse(s.reference), s.orientation)]

\* the SharedState after the lock-guarded body of SensorInput::recenter
Recentered(s) == [s EXCEPT !.reference = s.orientation]

\* SensorInput::recenter
recenter ==
    /\ UNCHANGED outsideTracker
    /\ sensors # 0
    /\ state' = [state EXCEPT ![sensors] = Recentered(@)]
    /\ SAVED_REFERENCE' = IF SAVED_REFERENCE = <<>> THEN SAVED_REFERENCE
                          ELSE << state'[sensors].reference >>
    /\ lastTare' = state[sensors].orientation
    /\ tareFresh' = TRUE
    /\ orientation_ret' = NoQuat
    /\ UNCHANGED << sensors, created, sensor_pc, sampled >>

\* SensorInput._thread_handle of tracker i: new() always stores Some(handle)
thread_handle(i) == i <= created

\* SensorInput::is_available of the live tracker
is_available == thread_handle(sensors)

InitTracker ==
    /\ SAVED_REFERENCE = <<>>
    /\ sensors = 0
    /\ created = 0
    /\ state = [i \in Trackers |-> NoState]
    /\ sensor_pc = [i \in Trackers |-> "none"]
    /\ orientation_ret = NoQuat
    /\ lastTare = IDENTITY
    /\ tareFresh = FALSE
    /\ sampled = FALSE

NextTracker ==
    \/ SensorInput_new
    \/ SensorInput_drop
    \/ \E i \in Trackers : sensor_setup(i)
    \/ \E i \in Trackers : sensor_check_running(i)
    \/ \E i \in Trackers : sensor_poll_nothing(i)
    \/ \E i \in Trackers : sensor_poll_event(i)
    \/ get_orientation
    \/ recenter

(***************************************************************************)
(* The gyroscope-only path of sensor_loop (a device with neither rotation  *)
(* vector).  Timestamps and intervals are counted in units of 100 ms,      *)
(* angles in half turns (modulo two full turns, the period of the          *)
(* quaternion), angular velocities in half turns per 100 ms.               *)
(***************************************************************************)
\* event.data[0..2] of a gyroscope event: gx, gy, gz
GyroRates == { <<1, 0, 0>>, <<0, 1, 0>>, <<0, 0, 1>> }

\* event.timestamp of the first event, and the interval between two events
FirstGyroTs == 1
GyroIntervals == { 1, 2, 3 }

\* 0.2 s
GyroGapLimit == 2

NoEvent == [data |-> <<0, 0, 0>>, timestamp |-> 0]

FreshGyro ==
    [gyro_pitch |-> 0, gyro_yaw |-> 0, gyro_roll |-> 0, last_ts |-> 0,
     event |-> NoEvent, events |-> 0]

InitGyro == gyro = [i \in Trackers |-> FreshGyro]

\* the rotation by k half turns about axis a (1: x, 2: y, 3: z)
HalfTurns(a, k) ==
    LET sin == << 0, 1, 0, -1 >>[(k % 4) + 1]
        cos == << 1, 0, -1, 0 >>[(k % 4) + 1]
    IN  [c \in 1..4 |-> IF c = a THEN sin ELSE IF c = 4 THEN cos ELSE 0]

\* Quat::from_euler(EulerRot::YXZ, yaw, pitch, roll)
FromEulerYXZ(yaw, pitch, roll) ==
    QMul(QMul(HalfTurns(2, yaw), HalfTurns(1, pitch)), HalfTurns(3, roll))

\* if last_ts > 0 { let dt = ...; if dt < 0.2 {
Integrates(last_ts, ts) == last_ts > 0 /\ ts - last_ts < GyroGapLimit

\* the locals after the gyroscope branch has processed the event ev
GyroProcessed(g, ev) ==
    LET dt == ev.timestamp - g.last_ts
        gx == ev.data[1]
        gy == ev.data[2]
        gz == ev.data[3]
    IN  IF Integrates(g.last_ts, ev.timestamp)
          THEN [g EXCEPT !.gyro_pitch = (@ - gy * dt) % 4,
                         !.gyro_yaw = (@ + gx * dt) % 4,
                         !.gyro_roll = (@ + gz * dt) % 4,
                         !.last_ts = ev.timestamp,
                         !.event = ev,
                         !.events = @ + 1]
          ELSE [g EXCEPT !.last_ts = ev.timestamp, !.event = ev, !.events = @ + 1]

\* poll_id == ident with sensor_type == ASENSOR_TYPE_GYROSCOPE: one event is
\* read and integrated; the orientation is written under the lock when the
\* event was integrated (updated)
gyro_poll_event(i) ==
    /\ UNCHANGED << decoderVars, pacingVars, rendererVars, remapVars, lockVars,
                    handlerVars, lockingVars,
                    cameraVars, hostVars >>
    /\ sensor_pc[i] = "poll"
    /\ gyro[i].events < MaxGyroEvents
    /\ \E d \in GyroRates, step \in GyroIntervals :
          LET ts == IF gyro[i].events = 0 THEN FirstGyroTs
                    ELSE gyro[i].event.timestamp + step
              ev == [data |-> d, timestamp |-> ts]
              updated == Integrates(gyro[i].last_ts, ts)
              g == GyroProcessed(gyro[i], ev)
          IN  /\ gyro' = [gyro EXCEPT ![i] = g]
              /\ state' = [state EXCEPT ![i] =
                              IF updated
                                THEN StoreOrientation(@,
                                        FromEulerYXZ(g.gyro_yaw, g.gyro_pitch,
                                                     g.gyro_roll))
                                ELSE @]
              /\ tareFresh' = IF sensors = i /\ updated THEN FALSE ELSE tareFresh
              /\ sampled' = IF sensors = i /\ updated THEN TRUE ELSE sampled
    /\ sensor_pc' = [sensor_pc EXCEPT ![i] = "loop"]
    /\ orientation_ret' = NoQuat
    /\ UNCHANGED << SAVED_REFERENCE, sensors, created, lastTare >>

\* one tracker on a device whose only motion sensor is the gyroscope
NextGyro ==
    \/ SensorInput_new
    \/ \E i \in Trackers : sensor_setup(i)
    \/ \E i \in Trackers : sensor_check_running(i)
    \/ \E i \in Trackers : sensor_poll_nothing(i)
    \/ \E i \in Trackers : gyro_poll_event(i)
    \/ get_orientation
    \/ recenter

(***************************************************************************)
(* Decoder pipeline: NdkVideoDecoder.                                      *)
(* Presentation times are counted in frame intervals: sample i of a media  *)
(* file has presentation time i, and every sample is a sync sample.        *)
(***************************************************************************)
\* no get_position() has just returned
NoPos == <<>>

\* a Vec<u8>: its length and, in place of the bytes, what the bytes are
EmptyVec == [tag |-> <<"empty", 0>>, len |-> 0]

\* the video track behind a file descriptor; with an odd number of pixels the
\* chroma plane is the rounded-down half of the luma plane
Media == << [width |-> 3, height |-> 1] >>

Fds == DOMAIN Media

\* positions seek() is called with
SeekTargets == {1, NumSamples + 1}

\* run_test_pattern: width, height, duration_us
TestWidth == 1280
TestHeight == 720
TestDurationUs == 60000000

\* NdkVideoDecoder::new
NewPlaybackState ==
    [is_playing |-> FALSE, position_us |-> 0, duration_us |-> 0, seek_request |-> <<>>]

NewFrameBuffer ==
    [y_data |-> EmptyVec, uv_data |-> EmptyVec, width |-> 0, height |-> 0,
     timestamp_us |-> 0, has_new_frame |-> FALSE]

\* no decode thread
NoWorker ==
    [pc |-> "none", fd |-> 0, by_path |-> FALSE, ext_pos |-> 0, codec |-> <<>>,
     pts |-> 0, out_size |-> 0, elapsed_us |-> 0, frame_count |-> 0]

\* what get_frame() returns: None, or Some((y_data, uv_data, width, height))
NoFrameRet ==
    [called |-> FALSE, some |-> FALSE, y_data |-> EmptyVec, uv_data |-> EmptyVec,
     width |-> 0, height |-> 0]

NoneFrame == [NoFrameRet EXCEPT !.called = TRUE]

SomeFrame(b) ==
    [called |-> TRUE, some |-> TRUE, y_data |-> b.y_data, uv_data |-> b.uv_data,
     width |-> b.width, height |-> b.height]

\* the log ends with the extractor seek that consumed the request
Applied == seekLog # <<>> /\ seekLog[Len(seekLog)][1] = "apply"

\* a step that is not a get_position() or a get_frame(): nothing is returned
CallReturnsNothing ==
    /\ position_ret' = NoPos
    /\ frame_ret' = NoFrameRet

(************************** the control surface ****************************)

\* start_from_fd after the running check: the flag, is_playing, the spawn
StartSession(fd) ==
    /\ running' = TRUE
    /\ playback_state' = [playback_state EXCEPT !.is_playing = TRUE]
    /\ decoder_thread' = TRUE
    /\ worker' = [NoWorker EXCEPT !.pc = "setup", !.fd = fd]
    /\ sessions' = sessions + 1
    /\ main_pc' = "idle"
    /\ start_arg' = 0

\* a stop() that leaves the dirty flag of the frame buffer as it was
ClearedBuffer_KeepFlag(b) ==
    [b EXCEPT !.y_data = EmptyVec, !.uv_data = EmptyVec]

\* stop(), after the join: the frame buffer is cleared
ClearedBuffer(b) ==
    [b EXCEPT !.y_data = EmptyVec, !.uv_data = EmptyVec, !.has_new_frame = FALSE]

\* a join that returns without waiting for the thread
Joined_NoWait == TRUE

\* handle.join() returns: the worker thread has left its function
Joined == worker.pc = "exited"

\* NdkVideoDecoder::start_from_fd: on a running decoder it calls stop() first
\* and waits there for the worker
start_from_fd(fd) ==
    /\ UNCHANGED outsideDecoder
    /\ main_pc = "idle"
    /\ sessions < MaxSessions
    /\ IF running
         THEN /\ running' = FALSE
              /\ main_pc' = "start_join"
              /\ start_arg' = fd
              /\ UNCHANGED << decoder_thread, playback_state, frame_buffer, sessions,
                              worker >>
         ELSE /\ StartSession(fd)
              /\ UNCHANGED frame_buffer
    /\ CallReturnsNothing
    /\ UNCHANGED << seekLog, framesAhead >>

\* start_from_fd, once handle.join() inside stop() has returned
start_from_fd_joined ==
    /\ UNCHANGED outsideDecoder
    /\ main_pc = "start_join"
    /\ Joined
    /\ frame_buffer' = ClearedBuffer(frame_buffer)
    /\ StartSession(start_arg)
    /\ CallReturnsNothing
    /\ UNCHANGED << seekLog, framesAhead >>

\* the file_path argument of start(): a test pattern, or a media file (the
\* one behind fd 1)
Paths == { "test://pattern", "/sdcard/video.mp4" }

\* start(): the thread runs run_test_pattern for a test:// path and
\* run_mediacodec_decode for any other
StartPathSession(file_path) ==
    /\ running' = TRUE
    /\ playback_state' = [playback_state EXCEPT !.is_playing = TRUE]
    /\ decoder_thread' = TRUE
    /\ worker' = IF file_path = "test://pattern"
                   THEN [NoWorker EXCEPT !.pc = "tp_init"]
                   ELSE [NoWorker EXCEPT !.pc = "setup", !.fd = 1, !.by_path = TRUE]
    /\ sessions' = sessions + 1
    /\ main_pc' = "idle"
    /\ start_arg' = 0

\* NdkVideoDecoder::start: on a running decoder it calls stop() first and
\* waits there for the worker
start(file_path) ==
    /\ UNCHANGED outsideDecoder
    /\ main_pc = "idle"
    /\ sessions < MaxSessions
    /\ IF running
         THEN /\ running' = FALSE
              /\ main_pc' = "start_path_join"
              /\ start_arg' = file_path
              /\ UNCHANGED << decoder_thread, playback_state, frame_buffer, sessions,
                              worker >>
         ELSE /\ StartPathSession(file_path)
              /\ UNCHANGED frame_buffer
    /\ CallReturnsNothing
    /\ UNCHANGED << seekLog, framesAhead >>

\* start, once handle.join() inside stop() has returned
start_joined ==
    /\ UNCHANGED outsideDecoder
    /\ main_pc = "start_path_join"
    /\ Joined
    /\ frame_buffer' = ClearedBuffer(frame_buffer)
    /\ StartPathSession(start_arg)
    /\ CallReturnsNothing
    /\ UNCHANGED << seekLog, framesAhead >>

\* NdkVideoDecoder::stop: the flag, then the join when there is a thread
stop ==
    /\ UNCHANGED outsideDecoder
    /\ main_pc = "idle"
    /\ running' = FALSE
    /\ IF decoder_thread
         THEN /\ main_pc' = "stop_join"
              /\ UNCHANGED frame_buffer
         ELSE /\ frame_buffer' = ClearedBuffer(frame_buffer)
              /\ UNCHANGED main_pc
    /\ CallReturnsNothing
    /\ UNCHANGED << decoder_thread, playback_state, start_arg, sessions, worker,
                    seekLog, framesAhead >>

\* stop, once handle.join() has returned
stop_joined ==
    /\ UNCHANGED outsideDecoder
    /\ main_pc = "stop_join"
    /\ Joined
    /\ decoder_thread' = FALSE
    /\ worker' = NoWorker
    /\ frame_buffer' = ClearedBuffer(frame_buffer)
    /\ main_pc' = "idle"
    /\ CallReturnsNothing
    /\ UNCHANGED << running, playback_state, start_arg, sessions,
                    seekLog, framesAhead >>

\* NdkVideoDecoder::pause
pause ==
    /\ UNCHANGED outsideDecoder
    /\ main_pc = "idle"
    /\ playback_state' = [playback_state EXCEPT !.is_playing = FALSE]
    /\ CallReturnsNothing
    /\ UNCHANGED << running, decoder_thread, frame_buffer, main_pc, start_arg,
                    sessions, worker, seekLog, framesAhead >>

\* NdkVideoDecoder::resume
resume ==
    /\ UNCHANGED outsideDecoder
    /\ main_pc = "idle"
    /\ playback_state' = [playback_state EXCEPT !.is_playing = TRUE]
    /\ CallReturnsNothing
    /\ UNCHANGED << running, decoder_thread, frame_buffer, main_pc, start_arg,
                    sessions, worker, seekLog, framesAhead >>

\* a seek() that leaves a request that is already pending in place
SeekRequested_KeepFirst(s, position_us) ==
    IF s.seek_request = <<>>
      THEN [s EXCEPT !.seek_request = << position_us >>, !.position_us = position_us]
      ELSE [s EXCEPT !.position_us = position_us]

\* the PlaybackState after the lock-guarded body of seek(position_us)
SeekRequested(s, position_us) ==
    [s EXCEPT !.seek_request = << position_us >>, !.position_us = position_us]

\* NdkVideoDecoder::seek
seek(position_us) ==
    /\ UNCHANGED outsideDecoder
    /\ main_pc = "idle"
    /\ playback_state' = SeekRequested(playback_state, position_us)
    /\ seekLog' = Append(IF Applied THEN <<>>
                         ELSE IF Len(seekLog) < 2 THEN seekLog
                         ELSE Tail(seekLog),
                         << "seek", position_us >>)
    /\ CallReturnsNothing
    /\ UNCHANGED << running, decoder_thread, frame_buffer, main_pc, start_arg,
                    sessions, worker, framesAhead >>

\* NdkVideoDecoder::get_position
get_position ==
    /\ UNCHANGED outsideDecoder
    /\ main_pc = "idle"
    /\ position_ret' = << IF poisoned.playback_state THEN 0
                           ELSE playback_state.position_us >>
    /\ frame_ret' = NoFrameRet
    /\ UNCHANGED << running, decoder_thread, playback_state, frame_buffer, main_pc,
                    start_arg, sessions, worker, seekLog, framesAhead >>

\* NdkVideoDecoder::get_duration
get_duration ==
    /\ UNCHANGED << trackerVars, decoderVars, pacingVars, rendererVars, remapVars,
                    handlerVars,
                    peripheralVars >>
    /\ main_pc = "idle"
    /\ duration_ret' = << IF poisoned.playback_state THEN 0
                           ELSE playback_state.duration_us >>
    /\ paused_ret' = <<>>
    /\ UNCHANGED poisoned

\* NdkVideoDecoder::is_paused
is_paused ==
    /\ UNCHANGED << trackerVars, decoderVars, pacingVars, rendererVars, remapVars,
                    handlerVars,
                    peripheralVars >>
    /\ main_pc = "idle"
    /\ paused_ret' = << ~(IF poisoned.playback_state THEN TRUE
                            ELSE playback_state.is_playing) >>
    /\ duration_ret' = <<>>
    /\ UNCHANGED poisoned

\* get_frame: the condition under which the buffer is handed out
FrameReady(b) == b.has_new_frame /\ b.y_data.len # 0

\* a get_frame() that leaves the dirty flag set
FrameTaken_KeepFlag(b) == b

\* get_frame: the buffer it leaves behind
FrameTaken(b) == [b EXCEPT !.has_new_frame = FALSE]

\* NdkVideoDecoder::get_frame
get_frame ==
    /\ UNCHANGED outsideDecoder
    /\ main_pc = "idle"
    /\ IF ~poisoned.frame_buffer /\ FrameReady(frame_buffer)
         THEN /\ frame_ret' = SomeFrame(frame_buffer)
              /\ frame_buffer' = FrameTaken(frame_buffer)
              /\ framesAhead' = framesAhead - 1
         ELSE /\ frame_ret' = NoneFrame
              /\ UNCHANGED << frame_buffer, framesAhead >>
    /\ position_ret' = NoPos
    /\ UNCHANGED << running, decoder_thread, playback_state, main_pc, start_arg,
                    sessions, worker, seekLog >>

(***************************** the orchestrator ****************************)

\* a new NdkVideoDecoder, and start_from_fd(fd) on it
NewDecoderSession(fd) ==
    /\ running' = TRUE
    /\ playback_state' = [NewPlaybackState EXCEPT !.is_playing = TRUE]
    /\ frame_buffer' = NewFrameBuffer
    /\ decoder_thread' = TRUE
    /\ worker' = [NoWorker EXCEPT !.pc = "setup", !.fd = fd]
    /\ sessions' = sessions + 1
    /\ main_pc' = "idle"
    /\ start_arg' = 0
    /\ seekLog' = <<>>
    /\ framesAhead' = 0

\* VRApp: a newly picked source (a pending fd, or a file of the browser).  The
\* old decoder is stopped, which waits for its worker; then a new decoder is
\* built and started, and the old one is dropped.
pick_source(fd) ==
    /\ UNCHANGED outsideDecoder
    /\ main_pc = "idle"
    /\ sessions < MaxSessions
    /\ IF decoder_thread
         THEN /\ running' = FALSE
              /\ main_pc' = "pick_join"
              /\ start_arg' = fd
              /\ UNCHANGED << decoder_thread, playback_state, frame_buffer, sessions,
                              worker, seekLog, framesAhead >>
         ELSE NewDecoderSession(fd)
    /\ CallReturnsNothing

\* the swap, once handle.join() inside old_decoder.stop() has returned
pick_source_joined ==
    /\ UNCHANGED outsideDecoder
    /\ main_pc = "pick_join"
    /\ Joined
    /\ NewDecoderSession(start_arg)
    /\ CallReturnsNothing

(**************************** the decode thread ****************************)

\* AMediaExtractor_seekTo(extractor, t, CLOSEST_SYNC): the index of the sample
\* the extractor stands on afterwards
ExtractorSeek(t) ==
    IF t < 0 THEN 0 ELSE IF t >= NumSamples THEN NumSamples - 1 ELSE t

\* a thread that ends when the decode path cannot be started
AfterSetup_GiveUp(outcome) == IF outcome = "started" THEN "top" ELSE "exited"

\* where the thread goes after the setup: into the decode loop, or, when
\* run_mediacodec_decode_fd returned Err, into run_test_pattern
AfterSetup(outcome) == IF outcome = "started" THEN "top" ELSE "tp_init"

\* run_mediacodec_decode_fd, from its entry to the decode loop.  With a data
\* source that cannot be set, or without a video track, it fails before the
\* duration is stored; with a track that cannot be selected or a codec that
\* cannot be created, configured or started it fails after; every failure
\* makes the thread fall back to run_test_pattern.  run_mediacodec_decode
\* (sessions opened by path) fails in the same places, and when the file
\* cannot be opened, and stores no duration.
worker_setup ==
    /\ UNCHANGED outsideDecoder
    /\ worker.pc = "setup"
    /\ \E outcome \in {"no_track", "codec_failed", "started"} :
          /\ playback_state' =
                IF outcome = "no_track" \/ worker.by_path THEN playback_state
                ELSE [playback_state EXCEPT !.duration_us = NumSamples]
          /\ worker' = [worker EXCEPT !.pc = AfterSetup(outcome)]
    /\ CallReturnsNothing
    /\ UNCHANGED << running, decoder_thread, frame_buffer, main_pc, start_arg,
                    sessions, seekLog, framesAhead >>

\* the worker after it has left its loop and released what it held
Exited == [NoWorker EXCEPT !.pc = "exited"]

\* a loop head that waits for the end of a pause before it tests the flag
LoopHead_PausedFirst(w, run, is_playing) ==
    IF ~is_playing THEN w
    ELSE IF ~run THEN Exited
    ELSE [w EXCEPT !.pc = "seek"]

\* the loop head: while running.load() { if !is_playing { sleep(50 ms);
\* continue } ... }; after the loop the codec and the extractor are released
LoopHead(w, run, is_playing) ==
    IF ~run THEN Exited
    ELSE IF ~is_playing THEN w
    ELSE [w EXCEPT !.pc = "seek"]

worker_top ==
    /\ UNCHANGED outsideDecoder
    /\ worker.pc = "top"
    /\ worker' = LoopHead(worker, running, playback_state.is_playing)
    /\ CallReturnsNothing
    /\ UNCHANGED << running, decoder_thread, playback_state, frame_buffer, main_pc,
                    start_arg, sessions, seekLog, framesAhead >>

\* a read of the request that leaves it in place
SeekTaken_Peek(s) == s

\* state.seek_request.take(): the PlaybackState it leaves behind
SeekTaken(s) == [s EXCEPT !.seek_request = <<>>]

\* the pending-seek block: take the request; seek the extractor and flush the
\* codec when there was one
worker_seek ==
    /\ UNCHANGED outsideDecoder
    /\ worker.pc = "seek"
    /\ playback_state' = SeekTaken(playback_state)
    /\ IF playback_state.seek_request # <<>>
         THEN /\ worker' = [worker EXCEPT
                               !.pc = "input",
                               !.ext_pos = ExtractorSeek(playback_state.seek_request[1]),
                               !.codec = <<>>]
              /\ seekLog' = Append(seekLog, << "apply", playback_state.seek_request[1] >>)
         ELSE /\ worker' = [worker EXCEPT !.pc = "input"]
              /\ UNCHANGED seekLog
    /\ CallReturnsNothing
    /\ UNCHANGED << running, decoder_thread, frame_buffer, main_pc, start_arg,
                    sessions, framesAhead >>

\* an end of stream that leaves the extractor at the end
Rewound_Stay(w) == [w EXCEPT !.pc = "output"]

\* readSampleData returned no sample: AMediaExtractor_seekTo(extractor, 0, ..)
Rewound(w) == [w EXCEPT !.pc = "output", !.ext_pos = 0]

\* feed one sample: dequeueInputBuffer may time out; at the end of the stream
\* the extractor is sent back to the start
worker_input ==
    /\ UNCHANGED outsideDecoder
    /\ worker.pc = "input"
    /\ \E got \in BOOLEAN :
          worker' =
             IF got /\ Len(worker.codec) < CodecCap
               THEN IF worker.ext_pos < NumSamples
                      THEN [worker EXCEPT !.pc = "output",
                                          !.codec = Append(@, worker.ext_pos),
                                          !.ext_pos = @ + 1]
                      ELSE Rewound(worker)
               ELSE [worker EXCEPT !.pc = "output"]
    /\ CallReturnsNothing
    /\ UNCHANGED << running, decoder_thread, playback_state, frame_buffer, main_pc,
                    start_arg, sessions, seekLog, framesAhead >>

\* the PlaybackState after state.position_us = pts
PositionStored(s, pts) == [s EXCEPT !.position_us = pts]

\* bytes of a whole frame of the video behind fd: luma plus chroma
FrameBytes(fd) ==
    Media[fd].width * Media[fd].height + (Media[fd].width * Media[fd].height) \div 2

\* out_size of AMediaCodec_getOutputBuffer: no buffer, a short one, a whole frame
OutSizes(fd) == { 0, FrameBytes(fd) - 1, FrameBytes(fd) }

\* drain one output buffer: dequeueOutputBuffer may time out; otherwise the
\* presentation time of the buffer becomes the position and the buffer is
\* fetched
worker_output ==
    /\ UNCHANGED outsideDecoder
    /\ worker.pc = "output"
    /\ \E got \in BOOLEAN, out_size \in OutSizes(worker.fd) :
          IF got /\ worker.codec # <<>>
            THEN /\ worker' = [worker EXCEPT !.pc = "frame",
                                             !.pts = Head(worker.codec),
                                             !.out_size = out_size,
                                             !.codec = Tail(@)]
                 /\ playback_state' = PositionStored(playback_state, Head(worker.codec))
            ELSE /\ worker' = [worker EXCEPT !.pc = "top"]
                 /\ UNCHANGED playback_state
    /\ CallReturnsNothing
    /\ UNCHANGED << running, decoder_thread, frame_buffer, main_pc, start_arg,
                    sessions, seekLog, framesAhead >>

\* Vec::resize(n, 0): a longer vector keeps its bytes and gains zeros
Resized(v, n) ==
    IF v.len = n THEN v
    ELSE [tag |-> IF v.len = 0 THEN <<"zero", 0>> ELSE <<"partial", 0>>, len |-> n]

\* a frame write that leaves width and height as they were
FrameStored_NoDims(b, width, height, pts, out_size) ==
    LET y_size == width * height
        uv_size == y_size \div 2
        r == [b EXCEPT !.y_data = Resized(@, y_size), !.uv_data = Resized(@, uv_size)]
    IN  IF out_size >= y_size + uv_size
          THEN [r EXCEPT !.y_data = [tag |-> <<"y", pts>>, len |-> y_size],
                         !.uv_data = [tag |-> <<"uv", pts>>, len |-> uv_size],
                         !.timestamp_us = pts,
                         !.has_new_frame = TRUE]
          ELSE r

\* the FrameBuffer after the lock-guarded block of the decode loop, for an
\* output buffer of out_size bytes that holds the frame with time pts
FrameStored(b, width, height, pts, out_size) ==
    LET y_size == width * height
        uv_size == y_size \div 2
        r == [b EXCEPT !.y_data = Resized(@, y_size), !.uv_data = Resized(@, uv_size)]
    IN  IF out_size >= y_size + uv_size
          THEN [r EXCEPT !.y_data = [tag |-> <<"y", pts>>, len |-> y_size],
                         !.uv_data = [tag |-> <<"uv", pts>>, len |-> uv_size],
                         !.width = width,
                         !.height = height,
                         !.timestamp_us = pts,
                         !.has_new_frame = TRUE]
          ELSE r

\* the FrameBuffer after the lock-guarded block of run_mediacodec_decode (a
\* session opened by path): the planes are resized, never copied, and the
\* frame is marked new whatever the size of the output buffer
PathFrameStored(b, width, height, pts) ==
    [b EXCEPT !.y_data = Resized(@, width * height),
              !.uv_data = Resized(@, (width * height) \div 2),
              !.width = width,
              !.height = height,
              !.timestamp_us = pts,
              !.has_new_frame = TRUE]

\* copy the output buffer into the frame buffer (skipped for a null or empty
\* buffer), release it, pace
FrameStep ==
    /\ worker.pc = "frame"
    /\ LET m == Media[worker.fd]
           out_size == worker.out_size
           marks == IF worker.by_path THEN out_size > 0
                                      ELSE out_size = FrameBytes(worker.fd)
       IN  /\ (running /\ marks /\ frame_buffer.has_new_frame) =>
                 framesAhead < MaxFrames
           /\ frame_buffer' =
                 IF out_size = 0 THEN frame_buffer
                 ELSE IF worker.by_path
                   THEN PathFrameStored(frame_buffer, m.width, m.height, worker.pts)
                   ELSE FrameStored(frame_buffer, m.width, m.height, worker.pts,
                                    out_size)
           /\ framesAhead' = IF marks THEN framesAhead + 1 ELSE framesAhead
    /\ worker' = [worker EXCEPT !.pc = "top", !.pts = 0, !.out_size = 0]
    /\ CallReturnsNothing
    /\ UNCHANGED << running, decoder_thread, playback_state, main_pc, start_arg,
                    sessions, seekLog >>

\* the output branch of one loop iteration, the pacing of the frame aside
worker_frame ==
    /\ UNCHANGED outsideDecoder
    /\ FrameStep

(************************ the test-pattern generator ***********************)

\* run_test_pattern, up to its loop
pattern_init ==
    /\ UNCHANGED outsideDecoder
    /\ worker.pc = "tp_init"
    /\ playback_state' = [playback_state EXCEPT !.duration_us = TestDurationUs]
    /\ worker' = [worker EXCEPT !.pc = "tp_top"]
    /\ CallReturnsNothing
    /\ UNCHANGED << running, decoder_thread, frame_buffer, main_pc, start_arg,
                    sessions, seekLog, framesAhead >>

\* the loop head of run_test_pattern
pattern_top ==
    /\ UNCHANGED outsideDecoder
    /\ worker.pc = "tp_top"
    /\ (running /\ playback_state.is_playing) =>
          /\ worker.frame_count < MaxFrames
          /\ frame_buffer.has_new_frame => framesAhead < MaxFrames
    /\ worker' = IF ~running THEN Exited
                 ELSE IF ~playback_state.is_playing THEN worker
                 ELSE [worker EXCEPT !.pc = "tp_frame"]
    /\ CallReturnsNothing
    /\ UNCHANGED << running, decoder_thread, playback_state, frame_buffer, main_pc,
                    start_arg, sessions, seekLog, framesAhead >>

\* the frame is drawn, the clock is read, the position is stored
pattern_position ==
    /\ UNCHANGED outsideDecoder
    /\ worker.pc = "tp_frame"
    /\ \E e \in worker.elapsed_us .. MaxElapsed :
          /\ worker' = [worker EXCEPT !.pc = "tp_write", !.elapsed_us = e]
          /\ playback_state' =
                PositionStored(playback_state, e % playback_state.duration_us)
    /\ CallReturnsNothing
    /\ UNCHANGED << running, decoder_thread, frame_buffer, main_pc, start_arg,
                    sessions, seekLog, framesAhead >>

\* the FrameBuffer after the lock-guarded block of run_test_pattern
PatternStored(b, frame_count, elapsed_us) ==
    LET y_size == TestWidth * TestHeight
        uv_size == y_size \div 2
    IN  [y_data |-> [tag |-> <<"pattern", (frame_count * 4) % 256>>, len |-> y_size],
         uv_data |-> [tag |-> <<"gray", 128>>, len |-> uv_size],
         width |-> TestWidth,
         height |-> TestHeight,
         timestamp_us |-> elapsed_us,
         has_new_frame |-> TRUE]

\* the frame is stored, frame_count advances, the thread sleeps
pattern_write ==
    /\ UNCHANGED outsideDecoder
    /\ worker.pc = "tp_write"
    /\ frame_buffer' = PatternStored(frame_buffer, worker.frame_count, worker.elapsed_us)
    /\ framesAhead' = framesAhead + 1
    /\ worker' = [worker EXCEPT !.pc = "tp_top", !.frame_count = @ + 1]
    /\ CallReturnsNothing
    /\ UNCHANGED << running, decoder_thread, playback_state, main_pc, start_arg,
                    sessions, seekLog >>

InitDecoder ==
    /\ running = FALSE
    /\ decoder_thread = FALSE
    /\ playback_state = NewPlaybackState
    /\ frame_buffer = NewFrameBuffer
    /\ main_pc = "idle"
    /\ start_arg = 0
    /\ sessions = 0
    /\ worker = NoWorker
    /\ position_ret = NoPos
    /\ frame_ret = NoFrameRet
    /\ seekLog = <<>>
    /\ framesAhead = 0

NextDecoder ==
    \/ \E fd \in Fds : start_from_fd(fd)
    \/ start_from_fd_joined
    \/ stop
    \/ stop_joined
    \/ pause
    \/ resume
    \/ \E t \in SeekTargets : seek(t)
    \/ get_position
    \/ get_frame
    \/ worker_setup
    \/ worker_top
    \/ worker_seek
    \/ worker_input
    \/ worker_output
    \/ worker_frame
    \/ pattern_init
    \/ pattern_top
    \/ pattern_position
    \/ pattern_write

(***************************************************************************)
(* Frame pacing of the decode loop: measure and lock.  The block runs once *)
(* for every output buffer the codec delivers; the timestamps of the       *)
(* stream and the time a loop iteration takes are inputs.                  *)
(***************************************************************************)
\* frames the loop measures before it locks the interval
EstimationFrames == 15
\* target_interval_ms before the lock
DefaultIntervalMs == 33
\* the fixed sleep of a measured frame
WarmupSleepMs == 33
\* lag of the deadline beyond which it is set to the current time
ResyncMs == 100

\* presentationTimeUs of the first output buffer
FirstPts == 0
\* presentationTimeUs of an output buffer minus that of the previous one:
\* 30 fps, 60 fps, a repeated timestamp, a step back (the stream looped)
PtsSteps == {33333, 16666, 0, -33333}
\* time one loop iteration takes outside its pacing sleep, in ms
Elapsed == {0, 50, 150}

\* i64 division truncates towards zero
TruncDiv(a, b) == IF a >= 0 THEN a \div b ELSE -((-a) \div b)

\* (accumulated_delta as f64 / samples_count as f64).round() as u64, for a
\* non-negative sum: halves round up
LockedInterval_Truncated(accumulated_delta, samples_count) ==
    accumulated_delta \div samples_count
LockedInterval(accumulated_delta, samples_count) ==
    (2 * accumulated_delta + samples_count) \div (2 * samples_count)

NoSteps == [d \in PtsSteps |-> 0]

InitPacing ==
    /\ pacing = [frames_for_estimation |-> 0, previous_pts |-> -1,
                 accumulated_delta |-> 0, samples_count |-> 0,
                 target_interval_ms |-> DefaultIntervalMs]
    /\ behind_ms = 0
    /\ slept_ms = 0
    /\ stepsSeen = NoSteps

\* the measure phase for an output buffer with timestamp pts, e ms after the
\* previous frame was paced
MeasureStep(pts, e) ==
    LET first == pacing.frames_for_estimation = 0
        delta == TruncDiv(pts - pacing.previous_pts, 1000)
        counted == pacing.previous_pts >= 0 /\ delta > 0
        acc == IF counted THEN pacing.accumulated_delta + delta
                          ELSE pacing.accumulated_delta
        cnt == IF counted THEN pacing.samples_count + 1
                          ELSE pacing.samples_count
        n == pacing.frames_for_estimation + 1
        lock == n = EstimationFrames /\ cnt > 0
    IN  /\ pacing' = [frames_for_estimation |-> n,
                      previous_pts |-> pts,
                      accumulated_delta |-> acc,
                      samples_count |-> cnt,
                      target_interval_ms |->
                          IF lock THEN LockedInterval(acc, cnt)
                                  ELSE pacing.target_interval_ms]
        /\ slept_ms' = WarmupSleepMs
        /\ behind_ms' = IF lock THEN 0 ELSE behind_ms + e + WarmupSleepMs

\* the measure phase: frames_for_estimation < 15
pace_measure ==
    /\ UNCHANGED outsidePacing
    /\ pacing.frames_for_estimation < EstimationFrames
    /\ \E d \in PtsSteps, e \in Elapsed :
          LET first == pacing.frames_for_estimation = 0
              pts == IF first THEN FirstPts ELSE pacing.previous_pts + d
          IN  /\ pts >= 0
              /\ MeasureStep(pts, e)
              /\ stepsSeen' = IF first THEN stepsSeen
                                       ELSE [stepsSeen EXCEPT ![d] = @ + 1]

\* mutant: a late deadline is never reset to the current time
LockedStep_NoResync(e) ==
    LET late == behind_ms + e - pacing.target_interval_ms
    IN  /\ slept_ms' = IF late < 0 THEN -late ELSE 0
        /\ behind_ms' = IF late < 0 THEN 0 ELSE late
        /\ UNCHANGED pacing

\* the locked phase for a frame e ms after the previous one was paced
LockedStep(e) ==
    LET late == behind_ms + e - pacing.target_interval_ms
    IN  /\ slept_ms' = IF late < 0 THEN -late ELSE 0
        /\ behind_ms' = IF late < 0 \/ late > ResyncMs THEN 0 ELSE late
        /\ UNCHANGED pacing

\* the locked phase: the deadline advances by the fixed interval
pace_locked ==
    /\ UNCHANGED outsidePacing
    /\ pacing.frames_for_estimation >= EstimationFrames
    /\ \E e \in Elapsed : LockedStep(e)
    /\ UNCHANGED stepsSeen

NextPacing ==
    \/ pace_measure
    \/ pace_locked

(***************************************************************************)
(* Renderer.  Lengths are in units of 1/RadiusUnit; the scale factor is    *)
(* the exact fraction <<numerator, denominator>> of the f32 expression.    *)
(***************************************************************************)
\* the f32 1.0 as a lens radius
RadiusUnit == 4
\* lens_radius values render() is called with: 0, 0.5, 1.0, 1.5, 2.0
LensRadii == {0, 2, 4, 6, 8}
\* lens_center_offset values
LensOffsets == {0}
\* the distortion_params argument of render(): None or Some((radius, offset))
DistortionParams ==
    { <<>> } \cup { << [radius |-> r, offset |-> o] >> : r \in LensRadii, o \in LensOffsets }
\* window sizes
InitialSize == << 4, 2 >>
Sizes == { << 0, 2 >>, << 4, 0 >>, << 2, 4 >>, << 4, 2 >> }

\* fractions
Rat(n, d) == << n, d >>
RatLess(a, b) == a[1] * b[2] < b[1] * a[2]
RatEq(a, b) == a[1] * b[2] = b[1] * a[2]

\* let r = lens_radius_val.min(1.0)
EffectiveRadius_Unclamped(lens_radius_val) == lens_radius_val
EffectiveRadius(lens_radius_val) ==
    IF lens_radius_val < RadiusUnit THEN lens_radius_val ELSE RadiusUnit

\* 1.0 / (1.0 + k1 * r2 + k2 * r2 * r2) with k1 = 0.25 = 5/20, k2 = 0.15 = 3/20
\* and r = n / RadiusUnit
ScaleFactor(lens_radius_val) ==
    LET n == EffectiveRadius(lens_radius_val)
        u == RadiusUnit * RadiusUnit
        r2 == n * n
    IN  Rat(20 * u * u, 20 * u * u + 5 * r2 * u + 3 * r2 * r2)

\* a buffer the GPU zero-initialises
ZeroUniforms == [lens_radius |-> 0, lens_center_offset |-> 0, scale_factor |-> Rat(0, 1)]

\* dimensions of the frames update_video_texture() is called with
VideoDims == { << 3, 1 >>, << TestWidth, TestHeight >> }

\* nothing was rendered yet
NoFrame == [acquired |-> FALSE, reconfigured |-> FALSE, passes |-> <<>>,
            submitted |-> FALSE, presented |-> FALSE]

\* get_current_texture() failed: surface.configure() and return
SkippedFrame_Presented == [NoFrame EXCEPT !.reconfigured = TRUE, !.presented = TRUE]
SkippedFrame == [NoFrame EXCEPT !.reconfigured = TRUE]

\* the placeholder textures and the default 16:9 video size of Renderer::new
NoVideo == [texture |-> FALSE, has_video |-> FALSE, width |-> 1920, height |-> 1080]

\* Renderer::new
InitRenderer ==
    /\ vr_mode = FALSE
    /\ size = InitialSize
    /\ offscreen = [id |-> 1, width |-> InitialSize[1], height |-> InitialSize[2]]
    /\ distortion_bind_group = [id |-> 1, view |-> 1]
    /\ distortion_buffer = ZeroUniforms
    /\ frame = NoFrame
    /\ video = NoVideo
    /\ redraw_pc = "idle"
    /\ redraw_requested = FALSE
    /\ last_call = "new"
    /\ repeated = FALSE
    /\ prev_vr_mode = FALSE
    /\ lastUniforms = ZeroUniforms

Called(name) ==
    /\ last_call' = name
    /\ repeated' = (last_call = name)
    /\ prev_vr_mode' = vr_mode

\* mutant: the bind group is built again over the view it already had
resize_StaleBinding ==
    /\ UNCHANGED outsideRenderer
    /\ redraw_pc = "idle"
    /\ \E wh \in Sizes :
          IF wh[1] > 0 /\ wh[2] > 0
          THEN /\ offscreen.id <= MaxResizes
               /\ size' = wh
               /\ offscreen' = [id |-> offscreen.id + 1, width |-> wh[1], height |-> wh[2]]
               /\ distortion_bind_group' = [id |-> distortion_bind_group.id + 1,
                                            view |-> distortion_bind_group.view]
          ELSE UNCHANGED << size, offscreen, distortion_bind_group >>
    /\ Called("resize")
    /\ UNCHANGED << vr_mode, distortion_buffer, frame, lastUniforms, video,
                    redraw_pc, redraw_requested >>

\* Renderer::resize
resize ==
    /\ UNCHANGED outsideRenderer
    /\ redraw_pc = "idle"
    /\ \E wh \in Sizes :
          IF wh[1] > 0 /\ wh[2] > 0
          THEN /\ offscreen.id <= MaxResizes
               /\ size' = wh
               /\ offscreen' = [id |-> offscreen.id + 1, width |-> wh[1], height |-> wh[2]]
               /\ distortion_bind_group' = [id |-> distortion_bind_group.id + 1,
                                            view |-> offscreen.id + 1]
          ELSE UNCHANGED << size, offscreen, distortion_bind_group >>
    /\ Called("resize")
    /\ UNCHANGED << vr_mode, distortion_buffer, frame, lastUniforms, video,
                    redraw_pc, redraw_requested >>

\* !self.vr_mode
Flipped_On(mode) == TRUE
Flipped(mode) == ~mode

toggle_vr_mode ==
    /\ UNCHANGED outsideRenderer
    /\ redraw_pc = "idle"
    /\ vr_mode' = Flipped(vr_mode)
    /\ Called("toggle_vr_mode")
    /\ UNCHANGED << size, offscreen, distortion_bind_group, distortion_buffer,
                    frame, lastUniforms, video, redraw_pc, redraw_requested >>

\* the gamepad's R3: renderer.vr_mode = !renderer.vr_mode
gamepad_toggle_vr_mode ==
    /\ UNCHANGED outsideRenderer
    /\ redraw_pc = "idle"
    /\ vr_mode' = Flipped(vr_mode)
    /\ Called("gamepad_toggle_vr_mode")
    /\ UNCHANGED << size, offscreen, distortion_bind_group, distortion_buffer,
                    frame, lastUniforms, video, redraw_pc, redraw_requested >>

\* the menu's exit request: renderer.vr_mode = false
exit_vr_mode ==
    /\ UNCHANGED outsideRenderer
    /\ redraw_pc = "idle"
    /\ vr_mode' = FALSE
    /\ Called("exit_vr_mode")
    /\ UNCHANGED << size, offscreen, distortion_bind_group, distortion_buffer,
                    frame, lastUniforms, video, redraw_pc, redraw_requested >>

\* mutant: the right eye is drawn over the left half
Passes_SameHalf(has_ui) ==
    LET target == IF vr_mode THEN << "offscreen", offscreen.id >> ELSE << "swapchain" >>
        half == size[1] \div 2
        ui_texture == << [label |-> "UI Clear Pass", target |-> << "ui_texture" >>] >>
                      \o (IF has_ui
                          THEN << [label |-> "UI Render Pass", target |-> << "ui_texture" >>] >>
                          ELSE << >>)
        clear == << [label |-> "Clear Pass", target |-> target] >>
        eye(i, x, w) == [label |-> "Eye Render Pass", target |-> target,
                         eye_index |-> i, viewport |-> << x, w >>]
        eyes == IF vr_mode
                  THEN << eye(0, 0, half), eye(1, 0, half) >>
                  ELSE << eye(2, 0, size[1]) >>
        distortion == IF vr_mode
                        THEN << [label |-> "Distortion Pass", target |-> << "swapchain" >>,
                                 view |-> distortion_bind_group.view] >>
                        ELSE << >>
        ui_screen == IF has_ui
                       THEN << [label |-> "UI Direct Screen Pass", target |-> << "swapchain" >>] >>
                       ELSE << >>
    IN  ui_texture \o clear \o eyes \o distortion \o ui_screen

\* the passes render() records when the swapchain image was acquired
Passes(has_ui) ==
    LET target == IF vr_mode THEN << "offscreen", offscreen.id >> ELSE << "swapchain" >>
        half == size[1] \div 2
        ui_texture == << [label |-> "UI Clear Pass", target |-> << "ui_texture" >>] >>
                      \o (IF has_ui
                          THEN << [label |-> "UI Render Pass", target |-> << "ui_texture" >>] >>
                          ELSE << >>)
        clear == << [label |-> "Clear Pass", target |-> target] >>
        eye(i, x, w) == [label |-> "Eye Render Pass", target |-> target,
                         eye_index |-> i, viewport |-> << x, w >>]
        eyes == IF vr_mode
                  THEN << eye(0, 0, half), eye(1, half, half) >>
                  ELSE << eye(2, 0, size[1]) >>
        distortion == IF vr_mode
                        THEN << [label |-> "Distortion Pass", target |-> << "swapchain" >>,
                                 view |-> distortion_bind_group.view] >>
                        ELSE << >>
        ui_screen == IF has_ui
                       THEN << [label |-> "UI Direct Screen Pass", target |-> << "swapchain" >>] >>
                       ELSE << >>
    IN  ui_texture \o clear \o eyes \o distortion \o ui_screen

\* Renderer::update_video_texture: the textures are created again when there
\* are none or the frame has other dimensions, then the planes are written
update_video_texture ==
    /\ UNCHANGED outsideRenderer
    /\ redraw_pc = "idle"
    /\ \E wh \in VideoDims :
          video' = IF ~video.texture \/ video.width # wh[1] \/ video.height # wh[2]
                     THEN [texture |-> TRUE, has_video |-> TRUE,
                           width |-> wh[1], height |-> wh[2]]
                     ELSE video
    /\ Called("update_video_texture")
    /\ UNCHANGED << vr_mode, size, offscreen, distortion_bind_group,
                    distortion_buffer, frame, lastUniforms, redraw_pc,
                    redraw_requested >>

\* Renderer::render, called by the RedrawRequested handler
render ==
    /\ UNCHANGED outsideRenderer
    /\ redraw_pc = "idle"
    /\ redraw_pc' = "request"
    /\ redraw_requested' = FALSE
    /\ \E distortion_params \in DistortionParams, acquired \in BOOLEAN, has_ui \in BOOLEAN :
          LET lens_radius_val == IF distortion_params = <<>> THEN RadiusUnit
                                 ELSE distortion_params[1].radius
              uniforms == [lens_radius |-> distortion_params[1].radius,
                           lens_center_offset |-> distortion_params[1].offset,
                           scale_factor |-> ScaleFactor(lens_radius_val)]
          IN  /\ IF distortion_params # <<>>
                    THEN /\ distortion_buffer' = uniforms
                         /\ lastUniforms' = distortion_buffer
                    ELSE UNCHANGED << distortion_buffer, lastUniforms >>
              /\ frame' = IF acquired
                             THEN [acquired |-> TRUE, reconfigured |-> FALSE,
                                   passes |-> Passes(has_ui),
                                   submitted |-> TRUE, presented |-> TRUE]
                             ELSE SkippedFrame
    /\ Called("render")
    /\ UNCHANGED << vr_mode, size, offscreen, distortion_bind_group, video >>

\* the end of the RedrawRequested handler: window.request_redraw()
request_redraw ==
    /\ UNCHANGED outsideRenderer
    /\ redraw_pc = "request"
    /\ redraw_pc' = "idle"
    /\ redraw_requested' = TRUE
    /\ UNCHANGED << vr_mode, size, offscreen, distortion_bind_group,
                    distortion_buffer, frame, video, last_call, repeated,
                    prev_vr_mode, lastUniforms >>

NextRenderer ==
    \/ update_video_texture
    \/ request_redraw
    \/ resize
    \/ toggle_vr_mode
    \/ gamepad_toggle_vr_mode
    \/ exit_vr_mode
    \/ render

(***************************************************************************)
(* The RedrawRequested handler of VRApp: the control intents of one frame  *)
(* are applied to the tracker and the decoder, then the orientation is     *)
(* read, the frame is pulled and the renderer draws.  The steps that touch *)
(* neither the tracker nor the decoder (video picker, VR mode, menu, file  *)
(* browser, zoom) are left out here.                                       *)
(***************************************************************************)
\* frames the handler draws
MaxRedraws == 1

\* the seek step of the buttons and of L1/R1: 10 seconds, in microseconds
SeekStepUs == 10000000

\* flags of ui.params that VrUi::render raises
UiFlags == { "recenter_flag", "toggle_play_pause", "seek_forward_flag",
             "seek_backward_flag" }

\* fields of GamepadActions that gamepad::poll_actions raises
GpActions == { "play_pause", "seek_back", "seek_forward", "reset_view" }

\* what one frame raises out of S: nothing, one intent, or all of them
Raises(S) == { {}, S } \cup { { x } : x \in S }

\* mutant: the orientation is read before the gamepad is polled
HandlerOrder_ReadFirst ==
    << "ui_render", "recenter_flag", "toggle_play_pause", "seek_forward_flag",
       "seek_backward_flag", "get_orientation", "poll_actions", "play_pause",
       "seek_back", "seek_forward", "reset_view", "get_frame", "render" >>

\* the steps of the handler, in program order
HandlerOrder ==
    << "ui_render", "recenter_flag", "toggle_play_pause", "seek_forward_flag",
       "seek_backward_flag", "poll_actions", "play_pause", "seek_back",
       "seek_forward", "reset_view", "get_orientation", "get_frame", "render" >>

\* the step the handler runs next; at "ui_render" it waits for the event
Step == HandlerOrder[handler.pc]

\* VRApp.ndk_decoder is Some
ndk_decoder == sessions > 0

InitHandler ==
    handler = [pc |-> 1, flags |-> {}, gp_actions |-> {}, gyro_enabled |-> TRUE,
               orientation |-> NoQuat, reference_used |-> NoQuat,
               pending |-> {}, tared |-> FALSE, applied |-> 0, frames |-> 0]

\* the step is over: its flag is reset, the handler moves on
Handled(h, step) ==
    [h EXCEPT !.pc = @ + 1,
              !.flags = @ \ { step },
              !.pending = @ \ { step },
              !.applied = IF step \in h.pending THEN @ + 1 ELSE @]

\* the event arrives; VrUi::render evaluates the UI and raises flags
redraw_ui_render ==
    /\ UNCHANGED << trackerVars, decoderVars, pacingVars, rendererVars, remapVars,
                    lockVars,
                    peripheralVars >>
    /\ Step = "ui_render"
    /\ sensors # 0
    /\ main_pc = "idle"
    /\ redraw_pc = "idle"
    /\ handler.frames < MaxRedraws
    /\ \E flags \in Raises(UiFlags), gyro_enabled \in BOOLEAN :
          handler' = [handler EXCEPT !.pc = @ + 1,
                                     !.flags = flags,
                                     !.gp_actions = {},
                                     !.gyro_enabled = gyro_enabled,
                                     !.orientation = NoQuat,
                                     !.reference_used = NoQuat,
                                     !.pending = flags,
                                     !.tared = FALSE,
                                     !.applied = 0]

\* if ui.params.recenter_flag { sensors.recenter() }, and the same for
\* gp_actions.reset_view
redraw_recenter(step) ==
    /\ UNCHANGED << decoderVars, pacingVars, rendererVars, remapVars, lockVars,
                    peripheralVars >>
    /\ Step = step
    /\ IF step \in handler.flags \cup handler.gp_actions
         THEN /\ state' = [state EXCEPT ![sensors] = Recentered(@)]
              /\ SAVED_REFERENCE' = IF SAVED_REFERENCE = <<>> THEN SAVED_REFERENCE
                                    ELSE << state'[sensors].reference >>
              /\ lastTare' = state[sensors].orientation
              /\ tareFresh' = TRUE
              /\ handler' = [Handled(handler, step) EXCEPT !.tared = TRUE]
         ELSE /\ UNCHANGED << state, SAVED_REFERENCE, lastTare, tareFresh >>
              /\ handler' = Handled(handler, step)
    /\ orientation_ret' = NoQuat
    /\ UNCHANGED << sensors, created, sensor_pc, sampled >>

\* if decoder.is_paused() { decoder.resume() } else { decoder.pause() }, for
\* ui.params.toggle_play_pause and for gp_actions.play_pause
redraw_play_pause(step) ==
    /\ UNCHANGED << trackerVars, pacingVars, rendererVars, remapVars, lockVars,
                    peripheralVars >>
    /\ Step = step
    /\ playback_state' =
          IF step \in handler.flags \cup handler.gp_actions /\ ndk_decoder
            THEN [playback_state EXCEPT !.is_playing = ~@]
            ELSE playback_state
    /\ handler' = Handled(handler, step)
    /\ CallReturnsNothing
    /\ UNCHANGED << running, decoder_thread, frame_buffer, main_pc, start_arg,
                    sessions, worker, seekLog, framesAhead >>

\* the position a seek step asks for: pos + 10 s, or (pos - 10 s).max(0)
SeekTarget(step, pos) ==
    IF step \in { "seek_forward_flag", "seek_forward" } THEN pos + SeekStepUs
    ELSE IF pos - SeekStepUs < 0 THEN 0 ELSE pos - SeekStepUs

\* let pos = decoder.get_position(); decoder.seek(...), for the two flags of
\* the UI and the two actions of the gamepad
redraw_seek(step) ==
    /\ UNCHANGED << trackerVars, pacingVars, rendererVars, remapVars, lockVars,
                    peripheralVars >>
    /\ Step = step
    /\ IF step \in handler.flags \cup handler.gp_actions /\ ndk_decoder
         THEN LET position_us == SeekTarget(step, playback_state.position_us)
              IN  /\ playback_state' = SeekRequested(playback_state, position_us)
                  /\ seekLog' = Append(IF Applied THEN <<>>
                                       ELSE IF Len(seekLog) < 2 THEN seekLog
                                       ELSE Tail(seekLog),
                                       << "seek", position_us >>)
         ELSE UNCHANGED << playback_state, seekLog >>
    /\ handler' = Handled(handler, step)
    /\ CallReturnsNothing
    /\ UNCHANGED << running, decoder_thread, frame_buffer, main_pc, start_arg,
                    sessions, worker, framesAhead >>

\* let gp_actions = gamepad::poll_actions()
redraw_poll_actions ==
    /\ UNCHANGED << trackerVars, decoderVars, pacingVars, rendererVars, remapVars,
                    lockVars,
                    peripheralVars >>
    /\ Step = "poll_actions"
    /\ \E gp_actions \in Raises(GpActions) :
          handler' = [handler EXCEPT !.pc = @ + 1,
                                     !.gp_actions = gp_actions,
                                     !.pending = @ \cup gp_actions]

\* let orientation = ...: sensors.get_orientation() with the gyroscope
\* enabled, Quat::IDENTITY without
redraw_get_orientation ==
    /\ UNCHANGED << decoderVars, pacingVars, rendererVars, remapVars, lockVars,
                    peripheralVars >>
    /\ Step = "get_orientation"
    /\ LET q == IF poisoned.state THEN IDENTITY ELSE GetOrientation(state[sensors])
       IN  IF handler.gyro_enabled
             THEN /\ orientation_ret' = q
                  /\ handler' = [handler EXCEPT !.pc = @ + 1,
                                                !.orientation = q,
                                                !.reference_used = state[sensors].reference]
             ELSE /\ orientation_ret' = NoQuat
                  /\ handler' = [handler EXCEPT !.pc = @ + 1,
                                                !.orientation = IDENTITY]
    /\ UNCHANGED << SAVED_REFERENCE, sensors, created, state, sensor_pc,
                    lastTare, tareFresh, sampled >>

\* if let Some((y_data, uv_data, width, height)) = decoder.get_frame() {
\* renderer.update_video_texture(...) }
redraw_get_frame ==
    /\ UNCHANGED << trackerVars, pacingVars, remapVars, lockVars,
                    peripheralVars >>
    /\ Step = "get_frame"
    /\ handler' = [handler EXCEPT !.pc = @ + 1]
    /\ IF ndk_decoder /\ ~poisoned.frame_buffer /\ FrameReady(frame_buffer)
         THEN /\ frame_ret' = SomeFrame(frame_buffer)
              /\ frame_buffer' = FrameTaken(frame_buffer)
              /\ framesAhead' = framesAhead - 1
              /\ video' = IF ~video.texture \/ video.width # frame_buffer.width
                                            \/ video.height # frame_buffer.height
                            THEN [texture |-> TRUE, has_video |-> TRUE,
                                  width |-> frame_buffer.width,
                                  height |-> frame_buffer.height]
                            ELSE video
              /\ Called("update_video_texture")
         ELSE /\ frame_ret' = IF ndk_decoder THEN NoneFrame ELSE NoFrameRet
              /\ UNCHANGED << frame_buffer, framesAhead, video, last_call, repeated,
                              prev_vr_mode >>
    /\ position_ret' = NoPos
    /\ UNCHANGED << running, decoder_thread, playback_state, main_pc, start_arg,
                    sessions, worker, seekLog >>
    /\ UNCHANGED << vr_mode, size, offscreen, distortion_bind_group,
                    distortion_buffer, frame, lastUniforms, redraw_pc,
                    redraw_requested >>

\* the distortion parameters the handler passes: ui.params at their defaults
UiDistortion == [radius |-> RadiusUnit, offset |-> 0]

\* renderer.render(orientation, ui_data, distortion_params, content_scale)
redraw_render ==
    /\ UNCHANGED << trackerVars, decoderVars, pacingVars, remapVars, lockVars,
                    peripheralVars >>
    /\ Step = "render"
    /\ handler' = [handler EXCEPT !.pc = 1, !.frames = @ + 1]
    /\ redraw_pc' = "request"
    /\ redraw_requested' = FALSE
    /\ distortion_buffer' = [lens_radius |-> UiDistortion.radius,
                             lens_center_offset |-> UiDistortion.offset,
                             scale_factor |-> ScaleFactor(UiDistortion.radius)]
    /\ lastUniforms' = distortion_buffer
    /\ \E acquired \in BOOLEAN :
          frame' = IF acquired
                     THEN [acquired |-> TRUE, reconfigured |-> FALSE,
                           passes |-> Passes(TRUE),
                           submitted |-> TRUE, presented |-> TRUE]
                     ELSE SkippedFrame
    /\ Called("render")
    /\ UNCHANGED << vr_mode, size, offscreen, distortion_bind_group, video >>

\* the handler is between two frames
BetweenFrames == Step = "ui_render"

\* the sensor thread, the first source picked, and the handler.  The decode
\* thread is not scheduled here: what it stores reaches the handler only in
\* the frame pull.
NextRedraw ==
    \/ BetweenFrames /\ SensorInput_new
    \/ \E i \in Trackers : sensor_setup(i)
    \/ \E i \in Trackers : sensor_check_running(i)
    \/ \E i \in Trackers : sensor_poll_event(i)
    \/ \E fd \in Fds : BetweenFrames /\ ~ndk_decoder /\ pick_source(fd)
    \/ redraw_ui_render
    \/ \E step \in { "recenter_flag", "reset_view" } : redraw_recenter(step)
    \/ \E step \in { "toggle_play_pause", "play_pause" } : redraw_play_pause(step)
    \/ \E step \in { "seek_forward_flag", "seek_backward_flag", "seek_back",
                     "seek_forward" } : redraw_seek(step)
    \/ redraw_poll_actions
    \/ redraw_get_orientation
    \/ redraw_get_frame
    \/ redraw_render
    \/ request_redraw

(***************************************************************************)
(* The axis remap as a map on payloads.                                    *)
(***************************************************************************)
\* values of one component of a payload
Components == {-1, 0, 1, 2}
RemapInputs == { << x, y, z, w >> : x \in Components, y \in Components,
                                   z \in Components, w \in Components }

InitRemapAt(d) ==
    /\ remap_in = d
    /\ remap_out = d
    /\ remap_n = 0

remap_apply ==
    /\ UNCHANGED outsideRemap
    /\ remap_n < MaxRemaps
    /\ remap_out' = Remap(remap_out)
    /\ remap_n' = remap_n + 1
    /\ UNCHANGED remap_in

(***************************************************************************)
(* The camera uniforms of a frame.  render_eye writes the uniforms of its  *)
(* eye with queue.write_buffer and records its pass in the encoder; the    *)
(* queue performs the staged writes when the encoder is submitted, before  *)
(* the passes of that submission execute.  Offsets are in units of 0.0005. *)
(***************************************************************************)
\* Self::IPD / 2.0 (IPD = 0.063)
HalfIPD == 63

\* lens_center_offset values render() is called with (the slider goes from
\* -0.15 to 0.15)
CameraLensOffsets == { -300, 0, 20, 300 }

\* the camera_uniforms render_eye computes: eye_offset[0] (dynamic_offset) and
\* the frustum shift of the projection (shift_x)
CameraUniforms(base_eye_offset, eye_index, lens_center_dist_offset) ==
    [eye_offset |-> IF eye_index = 0
                      THEN base_eye_offset + lens_center_dist_offset
                      ELSE base_eye_offset - lens_center_dist_offset,
     shift_x |-> IF eye_index = 0 THEN lens_center_dist_offset
                                  ELSE -lens_center_dist_offset]

\* the render_eye calls of render(): base_eye_offset, eye_index, lens offset
EyeCalls(vr, lens_offset_val) ==
    IF vr THEN << << -HalfIPD, 0, lens_offset_val >>, << HalfIPD, 1, lens_offset_val >> >>
          ELSE << << 0, 2, 0 >> >>

NoUniforms == [eye_offset |-> 0, shift_x |-> 0]

InitCamera ==
    camera = [pc |-> "idle", vr_mode |-> FALSE, lens_offset_val |-> 0, eye |-> 0,
              staged |-> << >>, encoder |-> << >>, camera_buffer |-> NoUniforms,
              observed |-> << >>]

outsideCamera ==
    << trackerVars, decoderVars, pacingVars, rendererVars, remapVars, lockVars,
       handlerVars, gyroVars, lockingVars, hostVars >>

\* render() is entered: a new encoder, nothing staged; what the passes of
\* the frame before read stays on record until this frame is submitted
camera_begin ==
    /\ UNCHANGED outsideCamera
    /\ camera.pc = "idle"
    /\ \E vr \in BOOLEAN, o \in CameraLensOffsets :
          camera' = [camera EXCEPT !.pc = "write", !.vr_mode = vr,
                                   !.lens_offset_val = o, !.eye = 1,
                                   !.staged = << >>, !.encoder = << >>]

\* render_eye: queue.write_buffer(&self.camera_buffer, 0, ..camera_uniforms)
camera_write_buffer ==
    /\ UNCHANGED outsideCamera
    /\ camera.pc = "write"
    /\ LET call == EyeCalls(camera.vr_mode, camera.lens_offset_val)[camera.eye]
       IN  camera' = [camera EXCEPT
                         !.pc = "pass",
                         !.staged = Append(@, CameraUniforms(call[1], call[2], call[3]))]

\* render_eye: the Eye Render Pass is recorded in the encoder
camera_eye_pass ==
    /\ UNCHANGED outsideCamera
    /\ camera.pc = "pass"
    /\ LET calls == EyeCalls(camera.vr_mode, camera.lens_offset_val)
       IN  camera' = [camera EXCEPT
                         !.pc = IF camera.eye < Len(calls) THEN "write" ELSE "submit",
                         !.eye = IF camera.eye < Len(calls) THEN @ + 1 ELSE @,
                         !.encoder = Append(@, calls[camera.eye][2])]

\* the camera buffer when pass k of the submission executes: the queue has
\* performed every staged write, in order, before the command buffer runs
BufferAtPass(buffer, staged, k) ==
    IF staged = << >> THEN buffer ELSE staged[Len(staged)]

\* queue.submit(once(encoder.finish())): the staged writes, then the passes
camera_submit ==
    /\ UNCHANGED outsideCamera
    /\ camera.pc = "submit"
    /\ camera' = [camera EXCEPT
                     !.pc = "idle",
                     !.camera_buffer = BufferAtPass(@, camera.staged, Len(camera.encoder)),
                     !.staged = << >>,
                     !.observed = [k \in DOMAIN camera.encoder |->
                                     [eye_index |-> camera.encoder[k],
                                      uniforms |-> BufferAtPass(camera.camera_buffer,
                                                                camera.staged, k)]]]

NextCamera ==
    \/ camera_begin
    \/ camera_write_buffer
    \/ camera_eye_pass
    \/ camera_submit

(***************************************************************************)
(* Lock scopes.  Each loop is the sequence of its statements that take or  *)
(* release a guard, call into the platform or sleep, or branch:            *)
(*   <<"lock", m>>, <<"unlock", m>>   the guard of Mutex m is taken, dropped *)
(*   <<"call", f>>                    a call that can block; the thread is *)
(*                                    inside it while it is at the statement *)
(*   <<"step", what>>                 a statement that does not block      *)
(*   <<"either", k>>                  go on, or continue at statement k    *)
(*   <<"goto", k>>                    continue at statement k              *)
(***************************************************************************)
\* sensor_loop: the loop at sensors.rs:157
SensorLoopOps ==
    << <<"lock", "state">>,                      \* 1  while state.lock().unwrap()
       <<"step", "running">>,                    \* 2        .running
       <<"unlock", "state">>,                    \* 3  the temporary guard is dropped
       <<"call", "ALooper_pollAll">>,            \* 4
       <<"either", 1>>,                          \* 5  ALOOPER_POLL_TIMEOUT: continue
       <<"either", 9>>,                          \* 6  poll_id == ident
       <<"call", "sleep_poll_error">>,           \* 7  ALOOPER_POLL_ERROR
       <<"goto", 1>>,                            \* 8
       <<"step", "ASensorEventQueue_getEvents">>,  \* 9
       <<"either", 1>>,                          \* 10 not updated
       <<"lock", "state">>,                      \* 11 if let Ok(mut s) = state.lock()
       <<"step", "orientation">>,                \* 12 s.orientation = new_quat
       <<"unlock", "state">>,                    \* 13
       <<"goto", 1>> >>

\* run_mediacodec_decode_fd: the loop at video_ndk.rs:625
DecodeLoopOps ==
    << <<"step", "running">>,                    \* 1  while running.load(..)
       <<"lock", "playback_state">>,             \* 2  playback_state.lock()
       <<"step", "is_playing">>,                 \* 3      .map(|s| s.is_playing)
       <<"unlock", "playback_state">>,           \* 4  end of the let statement
       <<"either", 8>>,                          \* 5  is_playing
       <<"call", "sleep_paused">>,               \* 6
       <<"goto", 1>>,                            \* 7  continue
       <<"lock", "playback_state">>,             \* 8  if let Ok(mut state) = ..lock()
       <<"either", 12>>,                         \* 9  seek_request.take() is None
       <<"call", "AMediaExtractor_seekTo">>,     \* 10
       <<"call", "AMediaCodec_flush">>,          \* 11
       <<"unlock", "playback_state">>,           \* 12 end of the if let block
       <<"call", "AMediaCodec_dequeueInputBuffer">>,   \* 13
       <<"call", "AMediaCodec_dequeueOutputBuffer">>,  \* 14
       <<"either", 1>>,                          \* 15 output_idx < 0
       <<"lock", "playback_state">>,             \* 16
       <<"step", "position_us">>,                \* 17 state.position_us = pts
       <<"unlock", "playback_state">>,           \* 18
       <<"lock", "frame_buffer">>,               \* 19
       <<"step", "copy">>,                       \* 20
       <<"unlock", "frame_buffer">>,             \* 21
       <<"call", "sleep_pacing">>,               \* 22
       <<"goto", 1>> >>

\* the reads of one RedrawRequested: get_position, get_orientation, get_frame
RenderReadOps ==
    << <<"lock", "playback_state">>,
       <<"step", "get_position">>,
       <<"unlock", "playback_state">>,
       <<"lock", "state">>,
       <<"step", "get_orientation">>,
       <<"unlock", "state">>,
       <<"lock", "frame_buffer">>,
       <<"step", "get_frame">>,
       <<"unlock", "frame_buffer">>,
       <<"goto", 1>> >>

LockThreads == { "sensor", "decode", "render" }

OpsOf(t) ==
    IF t = "sensor" THEN SensorLoopOps
    ELSE IF t = "decode" THEN DecodeLoopOps ELSE RenderReadOps

\* the statement thread t is at
OpAt(t) == OpsOf(t)[locking.pc[t]]

InitLocking ==
    locking = [pc |-> [t \in LockThreads |-> 1], held |-> [t \in LockThreads |-> {}]]

\* Mutex m is held by some thread
Held(m) == \E u \in LockThreads : m \in locking.held[u]

\* the states thread t can leave `locking` in by executing the statement it is
\* at; lock() waits while the Mutex is held
Executed(t) ==
    LET op == OpAt(t)
        pc == locking.pc[t]
    IN  IF op[1] = "lock"
          THEN IF Held(op[2]) THEN {}
               ELSE { [locking EXCEPT !.pc[t] = pc + 1,
                                      !.held[t] = @ \cup { op[2] }] }
        ELSE IF op[1] = "unlock"
          THEN { [locking EXCEPT !.pc[t] = pc + 1, !.held[t] = @ \ { op[2] }] }
        ELSE IF op[1] = "either"
          THEN { [locking EXCEPT !.pc[t] = k] : k \in { pc + 1, op[2] } }
        ELSE IF op[1] = "goto"
          THEN { [locking EXCEPT !.pc[t] = op[2]] }
        ELSE { [locking EXCEPT !.pc[t] = pc + 1] }

outsideLocking ==
    << trackerVars, decoderVars, pacingVars, rendererVars, remapVars, lockVars,
       handlerVars, gyroVars, cameraVars, hostVars >>

sensor_loop_op == UNCHANGED outsideLocking /\ locking' \in Executed("sensor")
decode_loop_op == UNCHANGED outsideLocking /\ locking' \in Executed("decode")
render_read_op == UNCHANGED outsideLocking /\ locking' \in Executed("render")

NextLocking ==
    \/ sensor_loop_op
    \/ decode_loop_op
    \/ render_read_op

\* ---------------------------------------------------------------------------
\* The native handles of the hardware decode routine
\*   run_mediacodec_decode_fd (from a descriptor) and run_mediacodec_decode
\*   (from a path): what each statement acquires and what each return releases
\* ---------------------------------------------------------------------------

\* the routine is entered with a descriptor the caller hands over, or with a
\* path it opens itself
Variants == { "fd", "path" }

\* what AMediaExtractor_getTrackFormat() and the "mime" key give for a track:
\* a video format, another format, or no format at all
TrackKinds == { "video", "audio", "null" }

\* the containers: every sequence of at most MaxTracks tracks
Containers == UNION { [1..n -> TrackKinds] : n \in 0..MaxTracks }

Handle(kind, track) == [kind |-> kind, track |-> track]

ExtractorHandle == Handle("extractor", 0)
CodecHandle == Handle("codec", 0)
FdHandle == Handle("fd", 0)
FormatHandle(i) == Handle("format", i)

NoRun ==
    [pc |-> "idle", variant |-> "fd", tracks |-> << >>, i |-> 0, video_track |-> 0,
     acquired |-> {}, released |-> << >>, result |-> "none"]

InitNative == native = NoRun

\* the handle is now the routine's to release
Acquire(n, h) == [n EXCEPT !.acquired = @ \cup { h }]

\* the delete and close calls of one branch, in their order
Release(n, hs) == [n EXCEPT !.released = @ \o hs]

\* libc::close(fd), which only the descriptor variant writes in its cleanup
CloseFd(n) == IF n.variant = "fd" THEN << FdHandle >> ELSE << >>

\* the routine returns r; in the path variant `file` goes out of scope, and
\* dropping a File closes its descriptor
Return(n, r) ==
    LET m == IF n.variant = "path" /\ FdHandle \in n.acquired
               THEN Release(n, << FdHandle >>) ELSE n
    IN  [m EXCEPT !.pc = "returned", !.result = r]

\* the routine is entered; File::open(file_path)? of the path variant
native_enter ==
    /\ UNCHANGED << coreVars, gamepadVars, pendingVars >>
    /\ native.pc = "idle"
    /\ \E v \in Variants, c \in Containers, opened \in BOOLEAN :
          LET n == [NoRun EXCEPT !.variant = v, !.tracks = c]
          IN  native' = IF v = "path" /\ ~opened
                          THEN Return(n, "err")
                          ELSE [Acquire(n, FdHandle) EXCEPT !.pc = "extractor"]

\* AMediaExtractor_new(); a null extractor returns at once
native_extractor_new ==
    /\ UNCHANGED << coreVars, gamepadVars, pendingVars >>
    /\ native.pc = "extractor"
    /\ \E ok \in BOOLEAN :
          native' = IF ok
                      THEN [Acquire(native, ExtractorHandle) EXCEPT !.pc = "source"]
                      ELSE Return(native, "err")

\* AMediaExtractor_setDataSourceFd()
native_set_data_source ==
    /\ UNCHANGED << coreVars, gamepadVars, pendingVars >>
    /\ native.pc = "source"
    /\ \E ok \in BOOLEAN :
          native' =
             IF ok
               THEN [native EXCEPT !.pc = IF Len(native.tracks) = 0
                                             THEN "track_idx" ELSE "tracks",
                                   !.i = 1]
               ELSE Return(Release(native, << ExtractorHandle >> \o CloseFd(native)),
                           "err")

\* one turn of `for i in 0..track_count`: a null format is skipped, a video
\* format is kept and ends the loop, any other format is deleted
native_track_format ==
    /\ UNCHANGED << coreVars, gamepadVars, pendingVars >>
    /\ native.pc = "tracks"
    /\ LET i == native.i
           kind == native.tracks[i]
           next_pc == IF i = Len(native.tracks) THEN "track_idx" ELSE "tracks"
       IN  native' =
              IF kind = "null"
                THEN [native EXCEPT !.i = i + 1, !.pc = next_pc]
              ELSE IF kind = "video"
                THEN [Acquire(native, FormatHandle(i)) EXCEPT
                         !.video_track = i, !.pc = "track_idx"]
              ELSE [Release(Acquire(native, FormatHandle(i)), << FormatHandle(i) >>)
                      EXCEPT !.i = i + 1, !.pc = next_pc]

\* let track_idx = video_track.ok_or("No video track found")?;  the `?` returns
\* the error as it stands.  video_format is non-null whenever video_track is
\* Some, so the branch after it is never taken
native_track_idx ==
    /\ UNCHANGED << coreVars, gamepadVars, pendingVars >>
    /\ native.pc = "track_idx"
    /\ native' = IF native.video_track = 0
                   THEN Return(native, "err")
                   ELSE [native EXCEPT !.pc = "select"]

\* AMediaExtractor_selectTrack(); both variants close the descriptor here
native_select_track ==
    /\ UNCHANGED << coreVars, gamepadVars, pendingVars >>
    /\ native.pc = "select"
    /\ \E ok \in BOOLEAN :
          native' =
             IF ok
               THEN [native EXCEPT !.pc = "create"]
               ELSE Return(Release(native, << FormatHandle(native.video_track),
                                              ExtractorHandle, FdHandle >>),
                           "err")

\* AMediaCodec_createDecoderByType()
native_create_decoder ==
    /\ UNCHANGED << coreVars, gamepadVars, pendingVars >>
    /\ native.pc = "create"
    /\ \E ok \in BOOLEAN :
          native' =
             IF ok
               THEN [Acquire(native, CodecHandle) EXCEPT !.pc = "configure"]
               ELSE Return(Release(native, << FormatHandle(native.video_track),
                                              ExtractorHandle >> \o CloseFd(native)),
                           "err")

\* the deletes after a codec exists: codec, format, extractor, descriptor
ReleaseAll(n) ==
    Release(n, << CodecHandle, FormatHandle(n.video_track), ExtractorHandle >>
               \o CloseFd(n))

\* AMediaCodec_configure()
native_configure ==
    /\ UNCHANGED << coreVars, gamepadVars, pendingVars >>
    /\ native.pc = "configure"
    /\ \E ok \in BOOLEAN :
          native' = IF ok THEN [native EXCEPT !.pc = "start"]
                    ELSE Return(ReleaseAll(native), "err")

\* AMediaCodec_start()
native_start ==
    /\ UNCHANGED << coreVars, gamepadVars, pendingVars >>
    /\ native.pc = "start"
    /\ \E ok \in BOOLEAN :
          native' = IF ok THEN [native EXCEPT !.pc = "loop"]
                    ELSE Return(ReleaseAll(native), "err")

\* `running` is false: the loop ends, the cleanup runs, Ok(()) is returned
native_stop ==
    /\ UNCHANGED << coreVars, gamepadVars, pendingVars >>
    /\ native.pc = "loop"
    /\ native' = Return(ReleaseAll(native), "ok")

NextNative ==
    \/ native_enter
    \/ native_extractor_new
    \/ native_set_data_source
    \/ native_track_format
    \/ native_track_idx
    \/ native_select_track
    \/ native_create_decoder
    \/ native_configure
    \/ native_start
    \/ native_stop

\* ---------------------------------------------------------------------------
\* The gamepad: handle_button() and poll_actions()
\* ---------------------------------------------------------------------------

\* the fields of GamepadState followed here
Buttons == { "btn_south", "btn_l1", "btn_r2", "btn_l2" }

\* keycodes: BUTTON_A, BUTTON_L1, BUTTON_L2, BUTTON_R2; and a code that
\* handle_button() does not know
KeyCodes == { 96, 102, 104, 105, 0 }

\* the field handle_button() assigns for a key code, "" for `_ => {}`
ButtonOfKey(key_code) ==
    CASE key_code = 96 -> "btn_south"
      [] key_code = 102 -> "btn_l1"
      [] key_code = 104 -> "btn_l2"
      [] key_code = 105 -> "btn_r2"
      [] OTHER -> ""

\* GamepadState::default()
NoButtons == [b \in Buttons |-> FALSE]

\* the actions of GamepadActions computed from an edge, and their button
OneShotActions == [play_pause |-> "btn_south", seek_back |-> "btn_l1"]

\* the actions computed from the level, and their button
HeldActions == [zoom_in |-> "btn_r2", zoom_out |-> "btn_l2"]

InitGamepad ==
    gamepad = [state |-> NoButtons, prev |-> NoButtons, actions |-> {},
               polled |-> FALSE, at_poll |-> NoButtons, at_poll_before |-> NoButtons]

\* handle_button(key_code, pressed)
handle_button ==
    /\ UNCHANGED << coreVars, nativeVars, pendingVars >>
    /\ \E key_code \in KeyCodes, pressed \in BOOLEAN :
          LET b == ButtonOfKey(key_code)
          IN  gamepad' = IF b = "" THEN gamepad
                         ELSE [gamepad EXCEPT !.state[b] = pressed]

\* the GamepadActions of poll_actions() for the snapshot `current` and *prev
ActionsOf(current, prev) ==
    { a \in DOMAIN OneShotActions :
         current[OneShotActions[a]] /\ ~prev[OneShotActions[a]] }
    \cup { a \in DOMAIN HeldActions : current[HeldActions[a]] }

poll_actions_NoUpdate ==
    /\ UNCHANGED << coreVars, nativeVars, pendingVars >>
    /\ LET current == gamepad.state
       IN  gamepad' = [gamepad EXCEPT
                          !.actions = ActionsOf(current, gamepad.prev),
                          !.polled = TRUE,
                          !.at_poll = current,
                          !.at_poll_before = gamepad.at_poll]

\* poll_actions(): the actions of the snapshot against *prev, then
\* *prev = current.  at_poll and at_poll_before keep the snapshots of this
\* poll and of the poll before it
poll_actions ==
    /\ UNCHANGED << coreVars, nativeVars, pendingVars >>
    /\ LET current == gamepad.state
       IN  gamepad' = [gamepad EXCEPT
                          !.actions = ActionsOf(current, gamepad.prev),
                          !.prev = current,
                          !.polled = TRUE,
                          !.at_poll = current,
                          !.at_poll_before = gamepad.at_poll]

NextGamepad ==
    \/ handle_button
    \/ poll_actions

\* ---------------------------------------------------------------------------
\* The pending video descriptor: onVideoFdReady() on the callback thread,
\* get_pending_fd() on the render thread
\* ---------------------------------------------------------------------------

\* the descriptors the host passes; a negative one when the open failed
DeliveredFds == { -1, 0, 7 }

\* AtomicI32::new(-1); delivery 0 stands for "no delivery"
InitPending ==
    pending = [fd |-> -1, delivery |-> 0, deliveries |-> 0, ret |-> << >>,
               taken |-> << >>, polled |-> FALSE]

\* Java_com_vrapp_core_MainActivity_onVideoFdReady(fd):
\* PENDING_VIDEO_FD.store(fd, SeqCst)
onVideoFdReady ==
    /\ UNCHANGED << coreVars, nativeVars, gamepadVars >>
    /\ pending.deliveries < MaxDeliveries
    /\ \E fd \in DeliveredFds :
          pending' = [pending EXCEPT !.fd = fd,
                                     !.deliveries = @ + 1,
                                     !.delivery = pending.deliveries + 1]

\* what get_pending_fd() returns for the value it swapped out
SomeFd(fd) == IF fd >= 0 THEN << fd >> ELSE << >>

\* the record after get_pending_fd() read fd and left `left` behind
Taken(p, left) ==
    [p EXCEPT !.fd = left,
              !.delivery = IF left = -1 THEN 0 ELSE @,
              !.ret = SomeFd(p.fd),
              !.polled = TRUE,
              !.taken = IF p.fd >= 0
                          THEN Append(@, [delivery |-> p.delivery, fd |-> p.fd])
                          ELSE @]

get_pending_fd_NoClear ==
    /\ UNCHANGED << coreVars, nativeVars, gamepadVars >>
    /\ pending' = Taken(pending, pending.fd)

\* get_pending_fd(): PENDING_VIDEO_FD.swap(-1, SeqCst), one atomic step
get_pending_fd ==
    /\ UNCHANGED << coreVars, nativeVars, gamepadVars >>
    /\ pending' = Taken(pending, -1)

NextPending ==
    \/ onVideoFdReady
    \/ get_pending_fd

InitHost == InitNative /\ InitGamepad /\ InitPending

NextRemap == remap_apply

Init ==
    /\ InitTracker /\ InitDecoder /\ InitPacing /\ InitRenderer
    /\ InitRemapAt(IDENTITY) /\ InitLock /\ InitHandler /\ InitGyro
    /\ InitLocking /\ InitCamera /\ InitHost

\* every payload
InitRemap ==
    /\ InitTracker /\ InitDecoder /\ InitPacing /\ InitRenderer /\ InitLock
    /\ InitHandler /\ InitGyro /\ InitLocking
    /\ InitCamera /\ InitHost
    /\ \E d \in RemapInputs : InitRemapAt(d)

SpecTracker == Init /\ [][NextTracker]_vars

SpecGyro == Init /\ [][NextGyro]_vars

SpecCamera == Init /\ [][NextCamera]_vars

SpecLocking == Init /\ [][NextLocking]_vars

SpecNative == Init /\ [][NextNative]_vars

SpecGamepad == Init /\ [][NextGamepad]_vars

SpecPending == Init /\ [][NextPending]_vars

SpecDecoder == Init /\ [][NextDecoder]_vars

SpecPacing == Init /\ [][NextPacing]_vars

SpecRenderer == Init /\ [][NextRenderer]_vars

SpecRemap == InitRemap /\ [][NextRemap]_vars

\* the application: the decoder and the orchestrator that swaps sources
NextApp ==
    \/ \E fd \in Fds : pick_source(fd)
    \/ pick_source_joined
    \/ \E fd \in Fds : start_from_fd(fd)
    \/ start_from_fd_joined
    \/ stop
    \/ stop_joined
    \/ pause
    \/ resume
    \/ worker_setup
    \/ worker_top
    \/ worker_seek
    \/ worker_input
    \/ worker_output
    \/ worker_frame
    \/ pattern_init
    \/ pattern_top
    \/ pattern_position
    \/ pattern_write

SpecApp == Init /\ [][NextApp]_vars

\* the session and its worker: what every client of the decoder runs against
NextSession ==
    \/ \E fd \in Fds : start_from_fd(fd)
    \/ start_from_fd_joined
    \/ stop
    \/ stop_joined
    \/ pause
    \/ resume
    \/ worker_setup
    \/ worker_top
    \/ worker_seek
    \/ worker_input
    \/ worker_output
    \/ worker_frame
    \/ pattern_init
    \/ pattern_top
    \/ pattern_position
    \/ pattern_write

\* a client that seeks
NextSeek ==
    \/ NextSession
    \/ \E t \in SeekTargets : seek(t)

SpecSeek == Init /\ [][NextSeek]_vars

\* a client that pulls frames: get_frame
NextFrames ==
    \/ NextSession
    \/ get_frame

SpecFrames == Init /\ [][NextFrames]_vars

\* the frame client on a decoder whose sessions are opened by descriptor or
\* by path
NextPath ==
    \/ NextFrames
    \/ \E file_path \in Paths : start(file_path)
    \/ start_joined

SpecPath == Init /\ [][NextPath]_vars

\* the frame client, with a test-pattern thread that is scheduled: each step
\* of run_test_pattern ends in a bounded sleep or a lock that is held briefly
SpecFallback ==
    /\ Init /\ [][NextFrames]_vars
    /\ WF_vars(pattern_init)
    /\ WF_vars(pattern_top)
    /\ WF_vars(pattern_position)
    /\ WF_vars(pattern_write)

\* the decode loop moves the extractor: a sample was queued, or the extractor
\* was sent back to the start
input_progress == worker_input /\ worker'.ext_pos # worker.ext_pos

\* the decode loop got an output buffer
output_progress == worker_output /\ worker'.pc = "frame"

\* the frame client, with a decode thread that is scheduled and a codec that
\* hands out an input buffer and an output buffer again and again
SpecLoop ==
    /\ Init /\ [][NextFrames]_vars
    /\ WF_vars(worker_top)
    /\ WF_vars(worker_seek)
    /\ WF_vars(worker_input)
    /\ SF_vars(input_progress)
    /\ WF_vars(worker_output)
    /\ SF_vars(output_progress)
    /\ WF_vars(worker_frame)

(***************************************************************************)
(* Poisoned locks.  A std::sync::Mutex is poisoned when a thread panics    *)
(* while it holds the guard; the data stay as that thread left them, and   *)
(* every later lock() returns Err.                                         *)
(***************************************************************************)
\* no worker has panicked inside a lock-guarded block
Unpoisoned == poisoned = NoPoison

\* the sensor thread panics inside the lock-guarded write of the orientation,
\* before the assignment
sensor_panic(i) ==
    /\ UNCHANGED << decoderVars, pacingVars, rendererVars, remapVars, handlerVars,
                    peripheralVars >>
    /\ Unpoisoned
    /\ i = sensors
    /\ sensor_pc[i] = "poll"
    /\ sensor_pc' = [sensor_pc EXCEPT ![i] = "panicked"]
    /\ poisoned' = [poisoned EXCEPT !.state = TRUE]
    /\ orientation_ret' = NoQuat
    /\ UNCHANGED << SAVED_REFERENCE, sensors, created, state, lastTare, tareFresh,
                    sampled, duration_ret, paused_ret >>

\* the decode thread panics inside a lock-guarded block, before it has
\* written: the block that stores the position, or the block that resizes and
\* fills the frame buffer
worker_panic ==
    /\ UNCHANGED << trackerVars, pacingVars, rendererVars, remapVars, handlerVars,
                    peripheralVars >>
    /\ Unpoisoned
    /\ \/ /\ worker.pc = "output"
          /\ worker.codec # <<>>
          /\ poisoned' = [poisoned EXCEPT !.playback_state = TRUE]
       \/ /\ worker.pc = "frame"
          /\ worker.out_size > 0
          /\ poisoned' = [poisoned EXCEPT !.frame_buffer = TRUE]
    /\ worker' = [worker EXCEPT !.pc = "exited"]
    /\ CallReturnsNothing
    /\ duration_ret' = <<>>
    /\ paused_ret' = <<>>
    /\ UNCHANGED << running, decoder_thread, playback_state, frame_buffer, main_pc,
                    start_arg, sessions, seekLog, framesAhead >>

\* one tracker and one decoder session, up to the first panic of a worker
\* inside a lock-guarded block; after it, the reads of the render thread
NextPoison ==
    \/ Unpoisoned /\ SensorInput_new
    \/ Unpoisoned /\ \E i \in Trackers : sensor_setup(i)
    \/ Unpoisoned /\ \E i \in Trackers : sensor_check_running(i)
    \/ Unpoisoned /\ \E i \in Trackers : sensor_poll_event(i)
    \/ Unpoisoned /\ recenter
    \/ Unpoisoned /\ \E fd \in Fds : pick_source(fd)
    \/ Unpoisoned /\ pause
    \/ Unpoisoned /\ resume
    \/ Unpoisoned /\ worker_setup
    \/ Unpoisoned /\ worker_top
    \/ Unpoisoned /\ worker_seek
    \/ Unpoisoned /\ worker_input
    \/ Unpoisoned /\ worker_output
    \/ Unpoisoned /\ worker_frame
    \/ Unpoisoned /\ pattern_init
    \/ Unpoisoned /\ pattern_top
    \/ Unpoisoned /\ pattern_position
    \/ Unpoisoned /\ pattern_write
    \/ \E i \in Trackers : sensor_panic(i)
    \/ worker_panic
    \/ poisoned.state /\ get_orientation
    \/ poisoned.playback_state /\ get_position
    \/ poisoned.playback_state /\ get_duration
    \/ poisoned.playback_state /\ is_paused
    \/ poisoned.frame_buffer /\ get_frame

SpecPoison == Init /\ [][NextPoison]_vars

SpecRedraw == Init /\ [][NextRedraw]_vars

\* the position the session that is stopped was sent to
StopSeekTargets == { 1 }

\* the tracker has not been used, the decoder has not been used
TrackerUnused == created = 0
DecoderUnused == sessions = 0

\* the teardown of each worker.  The tracker and the decoder share no state;
\* each behaviour runs one of them: trackers that are built and dropped beside
\* their sensor threads, or one decoder session that is started, paused,
\* sought and stopped beside the decode thread.
NextStop ==
    \/ DecoderUnused /\ SensorInput_new
    \/ DecoderUnused /\ SensorInput_drop
    \/ \E i \in Trackers : sensor_setup(i)
    \/ \E i \in Trackers : sensor_check_running(i)
    \/ \E i \in Trackers : sensor_poll_nothing(i)
    \/ \E i \in Trackers : sensor_poll_event(i)
    \/ \E fd \in Fds : TrackerUnused /\ DecoderUnused /\ start_from_fd(fd)
    \/ stop
    \/ stop_joined
    \/ pause
    \/ resume
    \/ \E t \in StopSeekTargets : seek(t)
    \/ worker_setup
    \/ worker_top
    \/ worker_seek
    \/ worker_input
    \/ worker_output
    \/ worker_frame
    \/ pattern_init
    \/ pattern_top
    \/ pattern_position
    \/ pattern_write

\* the steps of the sensor thread of tracker i, and those of the decode thread
sensor_thread(i) ==
    \/ sensor_setup(i)
    \/ sensor_check_running(i)
    \/ sensor_poll_nothing(i)
    \/ sensor_poll_event(i)

decode_thread ==
    \/ worker_setup
    \/ worker_top
    \/ worker_seek
    \/ worker_input
    \/ worker_output
    \/ worker_frame
    \/ pattern_init
    \/ pattern_top
    \/ pattern_position
    \/ pattern_write

\* every thread is scheduled: each step of a worker ends in a bounded wait (a
\* poll or dequeue with a timeout, a sleep, a lock that is held briefly), and
\* join() returns once the thread has ended
SpecStop ==
    /\ Init /\ [][NextStop]_vars
    /\ \A i \in Trackers : WF_vars(sensor_thread(i))
    /\ WF_vars(decode_thread)
    /\ WF_vars(stop_joined)

(***************************************************************************)
(* One session from a file descriptor with its pacing: every output        *)
(* buffer is paced in the iteration that stores it.  The test pattern is   *)
(* not scheduled.                                                          *)
(***************************************************************************)
\* presentation time of one frame interval of the media, in microseconds
FrameIntervalUs == 33333

\* time an iteration of the session takes outside its pacing sleep, in ms: the
\* decoder keeps up
PacedElapsed == { 0 }

\* the output branch of one loop iteration of run_mediacodec_decode_fd: the
\* frame is stored and released, then paced by the phase the counters are in
paced_frame ==
    /\ UNCHANGED << trackerVars, rendererVars, remapVars, lockVars, handlerVars,
                    peripheralVars >>
    /\ FrameStep
    /\ \E e \in PacedElapsed :
          IF pacing.frames_for_estimation < EstimationFrames
            THEN MeasureStep(worker.pts * FrameIntervalUs, e)
            ELSE LockedStep(e)
    /\ UNCHANGED stepsSeen

\* no seek has been requested yet
NoSeekYet == seekLog = <<>>

NextSeekPaced ==
    \/ \E fd \in Fds : DecoderUnused /\ start_from_fd(fd)
    \/ \E t \in StopSeekTargets : NoSeekYet /\ seek(t)
    \/ get_frame
    \/ worker_setup
    \/ worker_top
    \/ worker_seek
    \/ worker_input
    \/ worker_output
    \/ paced_frame

SpecSeekPaced == Init /\ [][NextSeekPaced]_vars

(***************************************************************************)
(* Claims about the orientation tracker (checked under SpecTracker).       *)
(***************************************************************************)
Live == state[sensors]

\* C1: whenever get_orientation() has just returned q, reference * q is the
\* raw orientation the sensor thread wrote last, i.e. q = inverse(reference) * raw.
C1_OrientationIsRelative ==
    orientation_ret # NoQuat =>
        /\ sensors # 0
        /\ QMul(Live.reference, orientation_ret) = Live.orientation

\* C1 witness: a read that returned a non-identity rotation against a
\* non-identity reference
C1_Witness ==
    /\ orientation_ret # NoQuat
    /\ Live.reference # IDENTITY
    /\ Live.orientation # Live.reference
    /\ ~IsIdentityRotation(orientation_ret)

\* C2: after recenter(), until the sensor thread writes the next sample, the
\* reference is the raw orientation that was current at the tare, and every
\* get_orientation() returns the identity rotation.
C2_RecenterAtomic ==
    tareFresh =>
        /\ sensors # 0
        /\ Live.reference = Live.orientation
        /\ Live.reference = lastTare
        /\ orientation_ret # NoQuat => IsIdentityRotation(orientation_ret)

\* C2 witness: a read right after a tare taken at a non-identity raw orientation
C2_Witness ==
    /\ tareFresh
    /\ Live.orientation # IDENTITY
    /\ orientation_ret = IDENTITY

\* C3: the reference of the live tracker is the one the most recent recenter()
\* stored, whatever number of trackers was dropped and rebuilt since; it is the
\* identity when no recenter() ever ran.
C3_ReferenceSurvivesRestart ==
    sensors # 0 => Live.reference = lastTare

\* C3 witness: a rebuilt tracker whose thread has not run yet (so its raw
\* orientation is still the identity) carries a non-identity reference
C3_Witness ==
    /\ sensors > 1
    /\ sensor_pc[sensors] = "start"
    /\ Live.orientation = IDENTITY
    /\ Live.reference # IDENTITY
    /\ Live.reference = lastTare

\* C4 (as claimed): a get_orientation() on a tracker that has not received a
\* sample yet returns the identity rotation.
C4_IdentityBeforeFirstSample ==
    (orientation_ret # NoQuat /\ ~sampled) => IsIdentityRotation(orientation_ret)

(***************************************************************************)
(* Claims about seeking (checked under SpecSeek).                          *)
(***************************************************************************)
\* a seek() was made and the decode loop has not consumed it yet
SeekPending == seekLog # <<>> /\ ~Applied

\* the target of the most recent seek()
LastSeekTarget ==
    seekLog[IF Applied THEN Len(seekLog) - 1 ELSE Len(seekLog)][2]

C6_LastSeekWins ==
    Applied =>
       /\ Len(seekLog) >= 2
       /\ seekLog[Len(seekLog) - 1] = << "seek", seekLog[Len(seekLog)][2] >>
       /\ \A i \in 1..(Len(seekLog) - 1) : seekLog[i][1] = "seek"

\* C6 witness: two seeks to different targets, then one extractor seek to the
\* second target
C6_Witness ==
    /\ Len(seekLog) = 3
    /\ seekLog[1][1] = "seek"
    /\ seekLog[2][1] = "seek"
    /\ seekLog[1][2] # seekLog[2][2]
    /\ seekLog[3] = << "apply", seekLog[2][2] >>

(***************************************************************************)
(* Claims about frame delivery (checked under SpecFrames).                 *)
(***************************************************************************)
\* C8: get_frame() hands out a frame at most once.  It has never returned
\* more frames than the worker marked dirty, a set dirty flag stands for a
\* marked frame that was not returned, and the flag is clear when get_frame()
\* has just returned a frame.
C8_FrameDeliveredOnce ==
    /\ framesAhead >= 0
    /\ frame_buffer.has_new_frame => framesAhead >= 1
    /\ frame_ret.some => ~frame_buffer.has_new_frame

\* C8 witness: get_frame() has just returned a frame, and the worker had
\* marked one more frame than get_frame() has returned
C8_Witness ==
    /\ frame_ret.some
    /\ framesAhead = 1
    /\ ~frame_buffer.has_new_frame

\* the frame get_frame() returned is a decoded frame of the media: both planes
\* carry the same presentation time, the size is the size of the video
DecodedFrame(f) ==
    /\ \E m \in DOMAIN Media : f.width = Media[m].width /\ f.height = Media[m].height
    /\ \E pts \in 0..(NumSamples - 1) :
          /\ f.y_data.tag = << "y", pts >>
          /\ f.uv_data.tag = << "uv", pts >>

\* the frame get_frame() returned is a frame of the test pattern
PatternFrame(f) ==
    /\ f.width = TestWidth
    /\ f.height = TestHeight
    /\ f.y_data.tag[1] = "pattern"
    /\ f.uv_data.tag = << "gray", 128 >>

\* C9: a frame returned by get_frame() is never torn.  Its luma plane, chroma
\* plane, width and height come from one frame the worker produced, the luma
\* plane has width * height bytes and the chroma plane half as many.
C9_FrameNotTorn ==
    frame_ret.some =>
       /\ frame_ret.y_data.len = frame_ret.width * frame_ret.height
       /\ frame_ret.uv_data.len = (frame_ret.width * frame_ret.height) \div 2
       /\ DecodedFrame(frame_ret) \/ PatternFrame(frame_ret)

\* C9 witness: the second session decodes a file, and get_frame() has just
\* returned one of its frames while the worker is about to write the next
C9_Witness ==
    /\ frame_ret.some
    /\ DecodedFrame(frame_ret)
    /\ sessions = 2
    /\ worker.pc = "frame"

(***************************************************************************)
(* Claims about pausing (checked under SpecDecoder).                       *)
(***************************************************************************)
Paused == ~playback_state.is_playing

\* C7 (as claimed): seek(T) makes the position T, get_position() returns the
\* position, and while playback is paused the position that reads the target
\* of the last seek() keeps reading it until the next seek().
C7_PositionReadsSeekTarget ==
    [][ /\ \A t \in SeekTargets : seek(t) => playback_state'.position_us = t
        /\ get_position => position_ret' = << playback_state.position_us >>
        /\ ( /\ Paused /\ Paused'
             /\ seekLog # <<>>
             /\ playback_state.position_us = LastSeekTarget
             /\ ~ \E t \in SeekTargets : seek(t) )
           => playback_state'.position_us = playback_state.position_us ]_vars

\* C10 (as claimed): while playback is paused no frame is produced and the
\* position is frozen: a step that starts and ends paused marks no frame
\* dirty, and changes the position only if it is a seek().
C10_PausedIsFrozen ==
    [][ (Paused /\ Paused') =>
           /\ framesAhead' <= framesAhead
           /\ playback_state'.position_us # playback_state.position_us
                 => \E t \in SeekTargets : seek(t) ]_vars

(***************************************************************************)
(* Claims about the life of a session.                                     *)
(***************************************************************************)
\* no call is in progress and the last stop() has returned (or no session
\* was ever started)
Stopped == main_pc = "idle" /\ ~running

\* C11: after stop() has returned the worker has exited and is joined, the
\* running flag is false, the frame buffer is empty and its dirty flag clear,
\* and a get_frame() returns nothing; as long as the decoder stays stopped no
\* frame is marked and the position does not move, and one more stop()
\* changes nothing.
C11_StopIsFinal ==
    /\ [](Stopped =>
            /\ worker = NoWorker
            /\ ~decoder_thread
            /\ frame_buffer.y_data = EmptyVec
            /\ frame_buffer.uv_data = EmptyVec
            /\ ~frame_buffer.has_new_frame
            /\ frame_ret.called => ~frame_ret.some)
    /\ [][ (Stopped /\ Stopped') =>
            /\ framesAhead' = framesAhead
            /\ playback_state'.position_us = playback_state.position_us
            /\ stop => UNCHANGED << running, decoder_thread, playback_state,
                                    frame_buffer, main_pc, worker >> ]_vars

\* C11 witness: a session that had marked a frame was stopped, and the
\* get_frame() after the stop returned nothing
C11_Witness ==
    /\ Stopped
    /\ sessions >= 1
    /\ framesAhead >= 1
    /\ frame_ret.called
    /\ ~frame_ret.some

\* a worker thread exists and has not left its function
WorkerAlive == worker.pc \notin {"none", "exited"}

\* C12: at most one decode worker is alive.  Every step that spawns a worker
\* (start_from_fd on the decoder, or the orchestrator's swap to a new source)
\* happens when no worker is alive: the old one was stopped and joined.
C12_OneWorker ==
    [][ sessions' = sessions + 1 => ~WorkerAlive ]_vars

\* C12 witness: a second worker was spawned after the first one had run (it
\* marked a frame)
C12_Witness ==
    /\ sessions = 2
    /\ worker.pc = "setup"
    /\ framesAhead >= 1

\* C13 (as claimed): a session started on a decoder that already ran one is
\* fresh: it starts with no pending seek request and with position 0, so no
\* seek made for the old source reaches the new extractor.
C13_FreshSession ==
    [][ (sessions >= 1 /\ sessions' = sessions + 1) =>
           /\ playback_state'.seek_request = <<>>
           /\ playback_state'.position_us = 0 ]_vars

\* C14: when the decode path cannot be started the worker falls back to the
\* test pattern inside the same session.  A running session always has a live
\* worker, a worker leaves the setup for the decode loop or for the test
\* pattern, and once it has fallen back a test-pattern frame becomes ready for
\* get_frame(), unless the session is stopped or paused first.
C14_FallbackDelivers ==
    /\ [](running => WorkerAlive)
    /\ [][ (worker.pc = "setup" /\ worker'.pc # "setup")
             => worker'.pc \in {"top", "tp_init"} ]_vars
    /\ (worker.pc = "tp_init")
          ~> \/ FrameReady(frame_buffer) /\ frame_buffer.width = TestWidth
             \/ ~running
             \/ Paused

\* C14 witness: in a running session get_frame() has just returned a frame of
\* the test pattern
C14_Witness ==
    /\ running
    /\ worker.pc \in {"tp_top", "tp_frame", "tp_write"}
    /\ frame_ret.some
    /\ PatternFrame(frame_ret)

\* C15 (as claimed): the test pattern honours seek() like the decode loop
\* does: once the generator has stored a position in a session, the positions
\* it stores afterwards continue from what the position reads, so after a
\* seek(T) they continue from T and never fall back behind it.
C15_FallbackHonorsSeek ==
    [][ (pattern_position /\ worker.frame_count >= 1) =>
           playback_state'.position_us >= playback_state.position_us ]_vars

\* the extractor has no more samples and the position reads the last one
AtEndOfStream ==
    /\ worker.pc = "input"
    /\ worker.ext_pos = NumSamples
    /\ playback_state.position_us = NumSamples - 1

StepMs(d) == TruncDiv(d, 1000)

\* the steps the measure phase saw that are positive in milliseconds
PositiveSteps == { d \in PtsSteps : StepMs(d) > 0 }

RECURSIVE SumOver(_, _)
SumOver(f, S) ==
    IF S = {} THEN 0
    ELSE LET d == CHOOSE x \in S : TRUE
         IN  f[d] + SumOver(f, S \ {d})

\* number and sum (ms) of the positive deltas between consecutive timestamps
PositiveCount == SumOver(stepsSeen, PositiveSteps)
PositiveSum == SumOver([d \in PtsSteps |-> stepsSeen[d] * StepMs(d)], PositiveSteps)

\* t is the mean sum / n rounded to the nearest integer, halves up
IsRoundedMean(t, sum, n) ==
    /\ 2 * (sum - t * n) < n
    /\ 2 * (sum - t * n) >= -n

Written(u) == u # ZeroUniforms

C19_RemapOrderFour ==
    LET x == remap_in[1]
        y == remap_in[2]
        z == remap_in[3]
        w == remap_in[4]
    IN  /\ remap_n = 1 => remap_out = << -y, x, z, w >>
        /\ remap_n = 2 => remap_out = << -x, -y, z, w >>
        /\ (remap_n = 2 /\ (x # 0 \/ y # 0)) => remap_out # remap_in
        /\ remap_n = 4 => remap_out = remap_in

\* C19 witness: a payload with x and y set, remapped four times
C19_Witness ==
    /\ remap_n = 4
    /\ remap_in = << 1, 2, -1, 1 >>
    /\ remap_out = remap_in

(***************************************************************************)
(* VR mode.                                                                *)
(***************************************************************************)
\* the GPU resources the renderer owns and what they hold
GpuResources == << size, offscreen, distortion_bind_group, distortion_buffer >>

\* the step is a call of toggle_vr_mode()
ToggleCall == last_call' = "toggle_vr_mode" /\ repeated' = (last_call = "toggle_vr_mode")

\* the step is a call of toggle_vr_mode() right after another one
SecondToggleCall == last_call = "toggle_vr_mode" /\ ToggleCall

\* C20 as claimed: toggle_vr_mode() is idempotent.  A second call in
\* succession leaves the renderer as the first call left it, and a call
\* changes nothing but the vr_mode flag.
C20_ToggleIdempotent ==
    [][ /\ SecondToggleCall => vr_mode' = vr_mode
        /\ ToggleCall => UNCHANGED << GpuResources, frame >> ]_vars

\* C20 amended: toggle_vr_mode() flips the flag.  A second call in succession
\* brings the renderer back to the state before the first call, and a call
\* changes nothing but the vr_mode flag: no GPU resource is created or
\* written.
C20_ToggleFlipsOnlyFlag ==
    [][ /\ ToggleCall => vr_mode' # vr_mode
        /\ SecondToggleCall => vr_mode' = prev_vr_mode
        /\ ToggleCall => UNCHANGED << GpuResources, frame >> ]_vars

\* C20 witness: two calls in succession on a renderer that was resized and
\* has drawn a frame left it in VR mode, as before the first call
C20_Witness ==
    /\ last_call = "toggle_vr_mode"
    /\ repeated
    /\ vr_mode
    /\ prev_vr_mode # vr_mode
    /\ offscreen.id > 1
    /\ frame.presented

(***************************************************************************)
(* Tracker without a sensor.                                               *)
(***************************************************************************)
\* the sensor thread of the live tracker returned from its setup: no looper,
\* manager, sensor or queue, or the sensor could not be enabled
SetupFailed == sensors # 0 /\ sensor_pc[sensors] = "done"

\* C21: a tracker whose sensor setup failed reports is_available() = false
\* and every orientation read from it is the identity.
C21_UnavailableIsReported ==
    SetupFailed =>
        /\ ~is_available
        /\ orientation_ret # NoQuat => orientation_ret = IDENTITY

(***************************************************************************)
(* Swapchain acquisition failure.                                          *)
(***************************************************************************)
\* the render() that ran last could not acquire the swapchain image
AcquireFailed == last_call = "render" /\ ~frame.acquired

\* the step is a render() call that cannot acquire the swapchain image
FailingRender == redraw_pc = "idle" /\ redraw_pc' = "request" /\ ~frame'.acquired

\* C22: a render() that cannot acquire the swapchain image reconfigures the
\* surface, records and submits no pass and presents nothing; it leaves
\* vr_mode, the video textures, the size and the offscreen target as they
\* were; and the handler goes on to request the next redraw.
C22_AcquireFailureSkipsFrame ==
    /\ [](AcquireFailed =>
             /\ frame.reconfigured
             /\ frame.passes = << >>
             /\ ~frame.submitted
             /\ ~frame.presented)
    /\ [][ FailingRender =>
             UNCHANGED << vr_mode, video, size, offscreen, distortion_bind_group >> ]_vars
    /\ [][ redraw_pc = "request" => (redraw_pc' = "idle" /\ redraw_requested') ]_vars
    /\ []((AcquireFailed /\ redraw_pc = "idle") => redraw_requested)

\* C22 witness: in VR mode with a video texture, the frame was skipped and
\* the next redraw is requested
C22_Witness ==
    /\ AcquireFailed
    /\ redraw_pc = "idle"
    /\ redraw_requested
    /\ frame.reconfigured
    /\ vr_mode
    /\ video.has_video

(***************************************************************************)
(* Undersized output buffers.                                              *)
(***************************************************************************)
\* the decode thread handles an output buffer that is smaller than a frame
ShortOutputStep ==
    /\ worker.pc = "frame"
    /\ worker.out_size < FrameBytes(worker.fd)
    /\ worker'.pc = "top"

\* C23: an output buffer smaller than width * height * 3 / 2 is not copied and
\* does not mark the frame new, in sessions opened by descriptor and by path;
\* every frame get_frame() returns is a whole decoded frame or a frame of the
\* test pattern.
C23_UndersizedNotDelivered ==
    /\ [][ ShortOutputStep =>
             /\ frame_buffer'.has_new_frame = frame_buffer.has_new_frame
             /\ frame_buffer'.timestamp_us = frame_buffer.timestamp_us
             /\ framesAhead' = framesAhead ]_vars
    /\ [](frame_ret.some => (DecodedFrame(frame_ret) \/ PatternFrame(frame_ret)))

(***************************************************************************)
(* Reads under a poisoned lock (checked under SpecPoison).                 *)
(***************************************************************************)
\* C24: with the lock poisoned by a worker, a read of the render thread returns
\* the value the lock last guarded: the relative orientation, the position,
\* the duration, the paused flag, the pending frame.
C24_PoisonedReadsLastGood ==
    /\ (poisoned.state /\ orientation_ret # NoQuat) =>
           orientation_ret = GetOrientation(state[sensors])
    /\ (poisoned.playback_state /\ position_ret # NoPos) =>
           position_ret = << playback_state.position_us >>
    /\ (poisoned.playback_state /\ duration_ret # <<>>) =>
           duration_ret = << playback_state.duration_us >>
    /\ (poisoned.playback_state /\ paused_ret # <<>>) =>
           paused_ret = << ~playback_state.is_playing >>
    /\ (poisoned.frame_buffer /\ frame_ret.called) =>
           frame_ret = IF FrameReady(frame_buffer) THEN SomeFrame(frame_buffer)
                       ELSE NoneFrame

(***************************************************************************)
(* The order of one redraw (checked under SpecRedraw).                     *)
(***************************************************************************)
\* the handler runs the step of an intent that this frame raised
Applies(step) == Step = step /\ step \in handler.pending /\ handler'.pc # handler.pc

\* C25: within one redraw every control intent that the UI evaluation or the
\* gamepad poll of that frame raised is applied (recenter: the reference
\* becomes the raw orientation; play/pause: is_playing flips; seek: the
\* request is the position plus or minus 10 s) before the orientation is
\* read, the frame is pulled and the renderer draws; none is raised or applied
\* after the read; and after a recenter of this frame the orientation passed
\* to render was computed with the reference that recenter stored.
C25_IntentsBeforeRender ==
    /\ [](Step \in { "get_orientation", "get_frame", "render" } => handler.pending = {})
    /\ [](handler.orientation # NoQuat => handler.pending = {})
    /\ [](Step \in { "get_frame", "render" } => handler.orientation # NoQuat)
    /\ [][ \A step \in { "recenter_flag", "reset_view" } :
             Applies(step) =>
                /\ handler.orientation = NoQuat
                /\ state'[sensors].reference = state[sensors].orientation ]_vars
    /\ [][ \A step \in { "toggle_play_pause", "play_pause" } :
             (Applies(step) /\ ndk_decoder) =>
                /\ handler.orientation = NoQuat
                /\ playback_state'.is_playing = ~playback_state.is_playing ]_vars
    /\ [][ \A step \in { "seek_forward_flag", "seek_backward_flag", "seek_back",
                          "seek_forward" } :
             (Applies(step) /\ ndk_decoder) =>
                /\ handler.orientation = NoQuat
                /\ playback_state'.seek_request =
                      << SeekTarget(step, playback_state.position_us) >> ]_vars
    /\ []((Step = "render" /\ handler.tared /\ handler.gyro_enabled) =>
             /\ handler.reference_used = lastTare
             /\ handler.reference_used = state[sensors].reference)

\* the handler is about to draw a frame in which the UI and the gamepad raised
\* every intent, with a decoder; the sensor thread wrote a sample between the
\* last recenter and the read, so the orientation passed is not the identity
C25_Witness ==
    /\ Step = "render"
    /\ handler.applied = 8
    /\ handler.tared
    /\ handler.gyro_enabled
    /\ ndk_decoder
    /\ handler.reference_used = lastTare
    /\ ~IsIdentityRotation(handler.orientation)

(***************************************************************************)
(* Teardown of the workers.                                                *)
(***************************************************************************)
\* the owner of tracker i has dropped it: Drop for SensorInput has returned
TornDown(i) == i <= created /\ sensors # i

\* stop() has returned (or no session was started): the handle is None
DecoderTornDown == ~decoder_thread /\ main_pc = "idle"

\* C26: once the owner has finished the teardown of a worker, the thread of
\* that worker has ended, and with it its use of the native handles (the
\* sensor event queue; the codec, the extractor and the file descriptor).
C26_JoinedBeforeTeardownEnds ==
    /\ \A i \in Trackers : TornDown(i) => sensor_pc[i] = "done"
    /\ DecoderTornDown => worker.pc = "none"

\* the decoder half of C26 alone
DecoderJoinedBeforeTeardownEnds == DecoderTornDown => worker.pc = "none"

\* the stop flag of the decoder is set and its thread has not been joined
Stopping == ~running /\ decoder_thread

\* C27: once the stop flag is set, the worker leaves its loop and ends.  Again
\* and again every dropped tracker has a sensor thread that has ended (a
\* dropped tracker stays dropped, so each one's thread ends); and the decode
\* thread of a stopped decoder, whatever it was doing (playing, paused, with a
\* seek pending, in the test pattern), ends, join() returns and stop()
\* returns.
C27_StopTerminates ==
    /\ []<>(\A i \in Trackers : TornDown(i) => sensor_pc[i] = "done")
    /\ Stopping ~> (worker.pc = "none" /\ main_pc = "idle")

\* C27 witness: stop() waits in join() and the decode thread, which was
\* paused with a seek pending when the flag was set, has ended
C27_Witness ==
    /\ main_pc = "stop_join"
    /\ Stopping
    /\ ~playback_state.is_playing
    /\ playback_state.seek_request # <<>>
    /\ worker.pc = "exited"

(***************************************************************************)
(* Who writes the raw orientation and the reference.                       *)
(***************************************************************************)
\* C28: the raw orientation is written only by the tracker thread and the
\* reference only by recenter().  A step that changes the raw orientation of a
\* tracker is that tracker's sensor thread storing a sample, and it leaves the
\* reference and the persisted reference as they were; a step that changes
\* the reference of a tracker, or the persisted reference once it is
\* initialised, is recenter() on the live tracker, which leaves the raw
\* orientation as it was and stores it as both references; a step in which
\* get_orientation() returns changes none of them.
C28_WritersOfRawAndReference ==
    [][ /\ \A i \in Trackers :
              (state[i] # NoState /\ state'[i] # NoState) =>
                 /\ state'[i].orientation # state[i].orientation =>
                       /\ sensor_poll_event(i)
                       /\ state'[i].reference = state[i].reference
                       /\ SAVED_REFERENCE' = SAVED_REFERENCE
                 /\ state'[i].reference # state[i].reference =>
                       /\ recenter
                       /\ sensors = i
                       /\ state'[i].orientation = state[i].orientation
                       /\ state'[i].reference = state[i].orientation
        /\ (SAVED_REFERENCE # <<>> /\ SAVED_REFERENCE' # SAVED_REFERENCE) =>
              /\ recenter
              /\ SAVED_REFERENCE' = << state[sensors].orientation >>
              /\ state'[sensors].orientation = state[sensors].orientation
        /\ \A i \in Trackers : sensor_poll_event(i) =>
              /\ state'[i].reference = state[i].reference
              /\ SAVED_REFERENCE' = SAVED_REFERENCE
        /\ recenter => state'[sensors].orientation = state[sensors].orientation
        /\ get_orientation =>
              /\ state' = state
              /\ SAVED_REFERENCE' = SAVED_REFERENCE ]_vars

\* C28 witness: the tracker was recentred away from the identity, its thread
\* then stored a different sample, and get_orientation() has returned; the
\* reference and the persisted reference are still the recentred one.
C28_Witness ==
    /\ sensors # 0
    /\ sampled
    /\ ~tareFresh
    /\ state[sensors].reference = lastTare
    /\ SAVED_REFERENCE = << lastTare >>
    /\ lastTare # IDENTITY
    /\ state[sensors].orientation # lastTare
    /\ orientation_ret # NoQuat

(***************************************************************************)
(* What the consumption of a pending seek resets.                          *)
(***************************************************************************)
\* the pacing locals as run_mediacodec_decode_fd declares them
FreshPacing ==
    [frames_for_estimation |-> 0, previous_pts |-> -1, accumulated_delta |-> 0,
     samples_count |-> 0, target_interval_ms |-> DefaultIntervalMs]

\* C29: the iteration that consumes a pending seek seeks the extractor to the
\* requested sample, flushes the codec, and resets the pacing state: the
\* warm-up counters, the locked interval and the deadline are as at the start
\* of the session when the next frame is decoded.
C29_SeekResetsPacing ==
    [][ (worker.pc = "seek" /\ playback_state.seek_request # <<>>
         /\ worker'.pc = "input") =>
            /\ playback_state'.seek_request = <<>>
            /\ worker'.ext_pos = ExtractorSeek(playback_state.seek_request[1])
            /\ worker'.codec = <<>>
            /\ pacing' = FreshPacing
            /\ behind_ms' = 0 ]_vars

(***************************************************************************)
(* The deadline of the locked pacing phase.                                *)
(***************************************************************************)
\* how far next_frame_target moves in a step that begins e ms after the
\* previous frame was paced: the time that passes (e and the sleep) minus the
\* growth of the distance from the deadline to the current time
DeadlineAdvance(e) == e + slept_ms' - (behind_ms' - behind_ms)

C31_GyroIntegration ==
    [][ \A i \in Trackers :
          gyro'[i].events = gyro[i].events + 1 =>
             LET g == gyro[i]
                 h == gyro'[i]
                 ev == h.event
                 dt == ev.timestamp - g.last_ts
             IN  /\ h.last_ts = ev.timestamp
                 /\ (g.last_ts > 0 /\ dt <= GyroGapLimit) =>
                       /\ h.gyro_pitch = (g.gyro_pitch - ev.data[2] * dt) % 4
                       /\ h.gyro_yaw = (g.gyro_yaw + ev.data[1] * dt) % 4
                       /\ h.gyro_roll = (g.gyro_roll + ev.data[3] * dt) % 4
                       /\ state'[i].orientation =
                             FromEulerYXZ(h.gyro_yaw, h.gyro_pitch, h.gyro_roll)
                 /\ ~(g.last_ts > 0 /\ dt <= GyroGapLimit) =>
                       /\ h.gyro_pitch = g.gyro_pitch
                       /\ h.gyro_yaw = g.gyro_yaw
                       /\ h.gyro_roll = g.gyro_roll
                       /\ state'[i].orientation = state[i].orientation ]_vars

(***************************************************************************)
(* Locks and blocking calls.                                               *)
(***************************************************************************)
\* thread t is inside a call that can block
InCall(t) == OpAt(t)[1] = "call"

\* C32: a worker that is inside a blocking call (the sensor poll, a codec
\* dequeue, the extractor seek, the codec flush, a sleep) holds no guard, so
\* no lock() of the render thread waits for such a call to return.
C32_NoLockAcrossBlockingCall ==
    /\ \A t \in { "sensor", "decode" } : InCall(t) => locking.held[t] = {}
    /\ \A t \in { "sensor", "decode" } :
          (OpAt("render")[1] = "lock" /\ OpAt("render")[2] \in locking.held[t])
             => ~InCall(t)

(***************************************************************************)
(* The offscreen target across resizes.                                    *)
(***************************************************************************)
\* the distortion passes and the eye passes of the frame rendered last
DistortionPasses ==
    { i \in DOMAIN frame.passes : frame.passes[i].label = "Distortion Pass" }
EyePasses ==
    { i \in DOMAIN frame.passes : frame.passes[i].label = "Eye Render Pass" }

\* C33: at all times the offscreen target has the width and height of the
\* surface configuration and binding 0 of the distortion bind group is the
\* view of the current offscreen target; the distortion pass of a frame
\* samples the target the eye passes of that frame drew into; and a resize
\* either replaces the target and the bind group for a size with no zero
\* side, or (a zero width or height) changes nothing.
C33_ResizeKeepsTargetBound ==
    /\ [](/\ offscreen.width = size[1]
          /\ offscreen.height = size[2]
          /\ size[1] > 0
          /\ size[2] > 0
          /\ distortion_bind_group.view = offscreen.id
          /\ \A d \in DistortionPasses : \A e \in EyePasses :
                /\ e < d
                /\ frame.passes[e].target = << "offscreen", frame.passes[d].view >>)
    /\ [][ last_call' = "resize" =>
              \/ UNCHANGED << size, offscreen, distortion_bind_group >>
              \/ /\ offscreen'.id = offscreen.id + 1
                 /\ distortion_bind_group'.id = distortion_bind_group.id + 1
                 /\ distortion_bind_group'.view = offscreen'.id ]_vars

\* C33 witness: after two resizes, the second to another size than the
\* first window, a VR frame was rendered whose distortion pass samples the
\* third offscreen target.
C33_Witness ==
    /\ last_call = "render"
    /\ vr_mode
    /\ offscreen.id = 3
    /\ size # InitialSize
    /\ DistortionPasses # {}
    /\ \A d \in DistortionPasses : frame.passes[d].view = 3

(***************************************************************************)
(* The passes of one frame.                                                *)
(***************************************************************************)
\* the frame on record is the one the render() that just ran drew, and that
\* render() acquired the swapchain image
FrameDrawn == last_call = "render" /\ frame.acquired

\* C34: a render() that acquires the swapchain image records, in VR mode, a
\* left-eye pass in the left half and then a right-eye pass in the right half
\* of the offscreen target, and after them exactly one distortion pass onto
\* the swapchain image; in non-VR mode exactly one eye pass over the full
\* width onto the swapchain image and no distortion pass.
C34_EyeAndDistortionPasses ==
    FrameDrawn =>
       LET p == frame.passes
           half == size[1] \div 2
       IN  IF vr_mode
             THEN /\ Cardinality(EyePasses) = 2
                  /\ Cardinality(DistortionPasses) = 1
                  /\ \E l \in EyePasses, r \in EyePasses, d \in DistortionPasses :
                        /\ l < r
                        /\ r < d
                        /\ p[l].eye_index = 0
                        /\ p[l].viewport = << 0, half >>
                        /\ p[l].target = << "offscreen", offscreen.id >>
                        /\ p[r].eye_index = 1
                        /\ p[r].viewport = << half, half >>
                        /\ p[r].target = << "offscreen", offscreen.id >>
                        /\ p[d].target = << "swapchain" >>
             ELSE /\ Cardinality(EyePasses) = 1
                  /\ DistortionPasses = {}
                  /\ \A e \in EyePasses :
                        /\ p[e].eye_index = 2
                        /\ p[e].viewport = << 0, size[1] >>
                        /\ p[e].target = << "swapchain" >>

\* C34 witness: a VR frame with the menu drawn, in a window resized to
\* another size than the first
C34_Witness ==
    /\ FrameDrawn
    /\ vr_mode
    /\ size # InitialSize
    /\ \E i \in DOMAIN frame.passes : frame.passes[i].label = "UI Direct Screen Pass"
    /\ Cardinality(EyePasses) = 2

(***************************************************************************)
(* The camera uniforms each eye pass reads.                                *)
(***************************************************************************)
\* the uniforms render() computes for the eye with index i
UniformsOfEye(i) ==
    CameraUniforms(IF i = 0 THEN -HalfIPD ELSE IF i = 1 THEN HalfIPD ELSE 0, i,
                   IF i = 2 THEN 0 ELSE camera.lens_offset_val)

\* C35: when a frame has been submitted, every eye pass has executed with
\* the camera uniforms computed for its eye: the left-eye pass with the
\* left-eye offset and frustum shift, the right-eye pass with the right-eye
\* ones.
C35_EachEyeReadsItsUniforms ==
    camera.pc = "idle" =>
       \A k \in DOMAIN camera.observed :
          camera.observed[k].uniforms = UniformsOfEye(camera.observed[k].eye_index)


\* how often the routine released handle h
Releases(h) ==
    Cardinality({ k \in DOMAIN native.released : native.released[k] = h })

\* C36: every native handle the decode routine acquires (extractor, track
\* format, codec, file descriptor) is released exactly once on every exit
\* path: nothing is released twice or without having been acquired, and
\* when the routine has returned nothing it acquired is still unreleased
C36_NativeReleasedOnce ==
    /\ \A k \in DOMAIN native.released : native.released[k] \in native.acquired
    /\ \A h \in native.acquired : Releases(h) <= 1
    /\ native.pc = "returned" => \A h \in native.acquired : Releases(h) = 1


C38_DeliveryTakenOnce ==
    /\ \A j, k \in DOMAIN pending.taken :
          pending.taken[j].delivery = pending.taken[k].delivery => j = k
    /\ \A k \in DOMAIN pending.taken :
          /\ pending.taken[k].delivery \in 1..pending.deliveries
          /\ pending.taken[k].fd >= 0
    /\ Len(pending.taken) <= pending.deliveries
    /\ (pending.polled /\ pending.ret # << >>) =>
          /\ pending.taken # << >>
          /\ pending.ret = << pending.taken[Len(pending.taken)].fd >>

\* two deliveries were taken, and the poll after them returned None
C38_Witness ==
    /\ Len(pending.taken) = 2
    /\ pending.polled /\ pending.ret = << >>
    /\ pending.deliveries = 3


\* the seek intents of a frame: the two flags of the UI, the two gamepad actions
SeekIntents == { "seek_forward_flag", "seek_backward_flag", "seek_back", "seek_forward" }

\* C39: every seek target the orchestrator issues for a seek-forward or
\* seek-backward intent lies within [0, duration_us] of the current session
C39_SeekTargetsWithinDuration ==
    [][ \A step \in SeekIntents :
          ( /\ redraw_seek(step)
            /\ step \in handler.flags \cup handler.gp_actions
            /\ ndk_decoder )
          => /\ playback_state'.seek_request # << >>
             /\ playback_state'.seek_request[1] >= 0
             /\ playback_state'.seek_request[1] <= playback_state.duration_us ]_vars


\* the worker is in the hardware decode loop
InDecodeLoop == worker.pc \in { "top", "seek", "input", "output", "frame" }

\* C40: after seek(T) has returned, and as long as the decode loop has not
\* applied the request to the extractor (so no frame of after the seek can
\* have been output), get_position() returns T: it never returns the time of
\* a frame dequeued before the seek was applied
C40_PositionStaysAtSeekTarget ==
    [][ (get_position /\ InDecodeLoop /\ SeekPending)
           => position_ret' = << LastSeekTarget >> ]_vars

====
